---- MODULE Spec2Model ----
(***************************************************************************)
(* The assembunny register machine of Advent of Code 2016, day 23          *)
(* (src/day-23/main.py): Instruction, Program.optimize and Program.run.    *)
(*                                                                         *)
(* A behaviour is one caller: it holds a Program (self_code) and a script  *)
(* of calls (optimize(), run(initial_state)), as main() does.  Every call  *)
(* of run() works on `code`, its deepcopy of self_code, and on a fresh     *)
(* MachineState (ip, registers).  One RunStep is one iteration of the      *)
(* while loop of Program.run: Instruction.execute and the handler of the   *)
(* exception it raised.  `last` and `log` are history variables: the step  *)
(* just taken and the calls completed so far.                              *)
(*                                                                         *)
(* Addresses are 0-based as in the source; a sequence s holds address k at *)
(* s[k + 1].  The per-instruction statistics are written only to the       *)
(* run's copy and read only by the stats printout: `toggled` is kept       *)
(* beside the copy, `executed` is left out.                                *)
(*                                                                         *)
(* The machine of day 25 (src/day-25/main.py) is modelled beside it: its   *)
(* Program.run is a generator that yields at every out, and a behaviour    *)
(* of it is one Program (signal_code) with the generators made from it and *)
(* their consumer (driver): clock_signal_seed, or a caller that pulls from *)
(* two generators in any order.  A generator runs only inside next(), one  *)
(* iteration of its while loop per SignalStep.                             *)
(*                                                                         *)
(* The interpreter of day 12 (src/day-12/main.py), with one class per      *)
(* instruction and no exceptions, is run12: one call of its Program.run,   *)
(* followed beside a run of day 23 on the same lines.  `parser` is one     *)
(* call of Program.from_lines of any of the three, and str() applied to    *)
(* the instructions it made.  A line of text is the sequence of the pieces *)
(* between its single spaces.                                              *)
(***************************************************************************)
EXTENDS Integers, Sequences, FiniteSets, TLC

\* ------------------------------------------------------------- bounds

\* Initial register values of the idiom runs range over 0..MaxInit.
MaxInit == 2

\* Length of the generated programs.
MaxLen == 2

\* Iterations of the while loop of run() a behaviour follows (`count` in the
\* source): enough for the idiom with both factors at MaxInit, which takes
\* 2 + w * (3 * x + 3) iterations, and a few instructions around it.
MaxSteps == 2 + MaxInit * (3 * MaxInit + 3) + 4

\* Values a consumer pulls from one generator of day 25.
MaxPulls == 3

\* Seeds clock_signal_seed is followed through.
MaxSeed == 3

\* ------------------------------------------------------ MachineState

Registers == {"a", "b", "c", "d"}

NoInitial == [r \in {} |-> 0]

\* MachineState.__init__: all registers 0, then updated with `initial`.
MachineState(initial) ==
    [ip |-> 0,
     registers |-> [r \in Registers |->
                      IF r \in DOMAIN initial THEN initial[r] ELSE 0]]

\* ------------------------------------------------------- Instruction

\* An argument is a register name (a Python str) or a literal (a Python int).
Reg(r) == [isstr |-> TRUE, s |-> r, n |-> 0]
Lit(n) == [isstr |-> FALSE, s |-> "", n |-> n]

\* Text is modelled as the line split at its single spaces; a piece is a word
\* or a numeral (sign and decimal digits, as -?\d+ reads them).
Word(w) == [word |-> w, neg |-> FALSE, digits |-> <<>>]
Numeral(neg, digits) == [word |-> "", neg |-> neg, digits |-> digits]

IsNumeral(tok) == tok.digits # <<>>

\* A line feed: the last piece of a line that ends with one.
Newline == Word("\n")

\* The part of the line the regular expressions bind: `$` matches at the end
\* of the line and before a line feed that ends it.
Chomp(line) ==
    IF line # <<>> /\ line[Len(line)] = Newline
    THEN SubSeq(line, 1, Len(line) - 1)
    ELSE line

RECURSIVE Digits(_)
Digits(n) == IF n < 10 THEN <<n>> ELSE Append(Digits(n \div 10), n % 10)

RECURSIVE DigitsValue(_)
DigitsValue(ds) ==
    IF ds = <<>> THEN 0
    ELSE 10 * DigitsValue(SubSeq(ds, 1, Len(ds) - 1)) + ds[Len(ds)]

\* str() of an argument: a register name as it is, an int in decimal.
StrValue(arg) ==
    IF arg.isstr THEN Word(arg.s)
    ELSE IF arg.n < 0 THEN Numeral(TRUE, Digits(-arg.n))
    ELSE Numeral(FALSE, Digits(arg.n))

\* Mutant of ParseValue: the sign of the numeral is not read.
ParseValueUnsigned(tok) ==
    IF IsNumeral(tok) THEN Lit(DigitsValue(tok.digits)) ELSE Reg(tok.word)

\* Instruction.__parse_value: int(value), or the string when int() fails.
ParseValue(tok) ==
    IF IsNumeral(tok)
    THEN Lit(IF tok.neg THEN -DigitsValue(tok.digits) ELSE DigitsValue(tok.digits))
    ELSE Reg(tok.word)

\* Mutant of Instruction: mul and nop are born optimized.
InstructionFrozen(name, args) ==
    [name |-> name,
     arguments |-> [i \in 1..Len(args) |-> ParseValue(args[i])],
     optimized |-> name \in {"mul", "nop"},
     chunk_head |-> FALSE]

\* Instruction.__init__
Instruction(name, args) ==
    [name |-> name,
     arguments |-> [i \in 1..Len(args) |-> ParseValue(args[i])],
     optimized |-> FALSE,
     chunk_head |-> FALSE]

\* Instruction.__str__: '{} {}'.format(name, ' '.join(map(str, arguments))),
\* of day 23 and of day 25 alike.  With no argument the text is the name
\* and a trailing space.
Str(ins) ==
    IF ins.arguments = <<>> THEN <<Word(ins.name), Word("")>>
    ELSE <<Word(ins.name)>> \o
         [i \in 1..Len(ins.arguments) |-> StrValue(ins.arguments[i])]

\* Instruction.__fetch_value
FetchValue(registers, value) ==
    IF value.isstr THEN registers[value.s] ELSE value.n

\* What Instruction.execute hands back to the loop of run().
Outcome(kind, ip, registers, address, error) ==
    [kind |-> kind, ip |-> ip, registers |-> registers,
     address |-> address, error |-> error]

\* `source, target = self.arguments` fails unless there are two arguments.
UnpackError == "ValueError: not enough values to unpack"

\* Instruction.execute on the state (ip, registers).  kind is "next" (the
\* method returned), "jump" (JumpToInstruction), "toggle" (ToggleInstruction)
\* or "raise" (an error).
Execute(ins, ip, registers) ==
    LET args == ins.arguments
        next(regs) == Outcome("next", ip + 1, regs, 0, "")
        fail(err) == Outcome("raise", ip, registers, 0, err)
    IN CASE ins.name = "cpy" ->
              IF Len(args) # 2 THEN fail(UnpackError)
              ELSE IF args[2].isstr
                   THEN next([registers EXCEPT
                                ![args[2].s] = FetchValue(registers, args[1])])
                   ELSE next(registers)
         [] ins.name = "dec" ->
              IF args[1].isstr
              THEN next([registers EXCEPT ![args[1].s] = @ - 1])
              ELSE next(registers)
         [] ins.name = "inc" ->
              IF args[1].isstr
              THEN next([registers EXCEPT ![args[1].s] = @ + 1])
              ELSE next(registers)
         [] ins.name = "jnz" ->
              IF Len(args) # 2 THEN fail(UnpackError)
              ELSE IF FetchValue(registers, args[1]) # 0
                   THEN Outcome("jump", ip, registers,
                                ip + FetchValue(registers, args[2]), "")
                   ELSE next(registers)
         [] ins.name = "mul" ->
              IF Len(args) # 2 THEN fail(UnpackError)
              ELSE IF args[2].isstr
                   THEN next([registers EXCEPT
                                ![args[2].s] = @ * FetchValue(registers, args[1])])
                   ELSE next(registers)
         [] ins.name = "nop" -> next(registers)
         [] ins.name = "tgl" ->
              Outcome("toggle", ip + 1, registers,
                      ip + FetchValue(registers, args[1]), "")
         [] OTHER -> fail("ValueError: Unrecognized instruction")

ToggleOptimizedError == "ValueError: Cannot toggle an optimized instruction."

\* Mutant of ToggledName: a two-argument instruction always becomes jnz.
ToggledNameOneWay(ins) ==
    IF Len(ins.arguments) = 1
    THEN (IF ins.name = "inc" THEN "dec" ELSE "inc")
    ELSE "jnz"

\* Mutant of ToggledName: the tests are on the other name of each pair, so
\* that any other instruction becomes dec or cpy.
ToggledNameOtherDefault(ins) ==
    IF Len(ins.arguments) = 1
    THEN (IF ins.name = "dec" THEN "inc" ELSE "dec")
    ELSE (IF ins.name = "cpy" THEN "jnz" ELSE "cpy")

\* The name Instruction.toggle gives an instruction that is not optimized.
ToggledName(ins) ==
    IF Len(ins.arguments) = 1
    THEN (IF ins.name = "inc" THEN "dec" ELSE "inc")
    ELSE (IF ins.name = "jnz" THEN "cpy" ELSE "jnz")

\* Mutant of Toggle: no test of `optimized`.
ToggleUnchecked(ins) ==
    [ok |-> TRUE, ins |-> [ins EXCEPT !.name = ToggledName(ins)], error |-> ""]

\* Instruction.toggle: the instruction afterwards, or the error raised.
Toggle(ins) ==
    IF ins.optimized
    THEN [ok |-> FALSE, ins |-> ins, error |-> ToggleOptimizedError]
    ELSE [ok |-> TRUE, ins |-> [ins EXCEPT !.name = ToggledName(ins)],
          error |-> ""]

\* ----------------------------------------------------------- Program

NoInstruction == Instruction("", <<>>)

\* A piece that (-?\d+|[a-d]) matches.
IsValue(tok) == IsNumeral(tok) \/ tok.word \in Registers

\* Program.INSTRUCTION_REGEXPS, tried in order by Program._parse_line.
MatchesRegexp(k, line) ==
    LET l == Chomp(line)
    IN CASE k = 1 -> l = <<Word("nop")>>
         [] k = 2 -> /\ Len(l) = 2
                     /\ l[1] \in {Word("dec"), Word("inc"), Word("tgl")}
                     /\ IsValue(l[2])
         [] k = 3 -> /\ Len(l) = 3
                     /\ l[1] \in {Word("cpy"), Word("jnz"), Word("mul")}
                     /\ IsValue(l[2])
                     /\ IsValue(l[3])

\* Program._parse_line: Instruction(*match.groups()) of the first regular
\* expression that matches, or ValueError.
ParseLine(line) ==
    IF \E k \in 1..3 : MatchesRegexp(k, line)
    THEN [ok |-> TRUE,
          ins |-> Instruction(Chomp(line)[1].word, Tail(Chomp(line)))]
    ELSE [ok |-> FALSE, ins |-> NoInstruction]

\* Program.from_lines on lines that all parse.
FromLines(lines) == [i \in 1..Len(lines) |-> ParseLine(lines[i]).ins]

\* ValueError('Unrecognized instruction: {}'.format(line)): the message
\* holds the line as it was given, and nothing else of the call.
UnrecognizedInstruction(line) ==
    [type |-> "ValueError", message |-> "Unrecognized instruction: {}",
     line |-> line]

NoError == [type |-> "", message |-> "", line |-> <<>>]

PatternLen == 8

\* The pattern of Program.optimize with its named groups bound.
Pattern(a, b, c, d) ==
    << <<Word("cpy"), Word(a), Word(d)>>,
       <<Word("cpy"), Numeral(FALSE, <<0>>), Word(a)>>,
       <<Word("cpy"), Word(b), Word(c)>>,
       <<Word("inc"), Word(a)>>,
       <<Word("dec"), Word(c)>>,
       <<Word("jnz"), Word(c), Numeral(TRUE, <<2>>)>>,
       <<Word("dec"), Word(d)>>,
       <<Word("jnz"), Word(d), Numeral(TRUE, <<5>>)>> >>

\* Mutant of Replacement: the operands of mul the other way round.
ReplacementSwapped(f) ==
    << <<Word("mul"), Word(f.a), Word(f.b)>>,
       <<Word("cpy"), Numeral(FALSE, <<0>>), Word(f.c)>>,
       <<Word("cpy"), Numeral(FALSE, <<0>>), Word(f.d)>>,
       <<Word("nop")>>, <<Word("nop")>>, <<Word("nop")>>,
       <<Word("nop")>>, <<Word("nop")>> >>

\* The replacement of Program.optimize, formatted with the fields.
Replacement(f) ==
    << <<Word("mul"), Word(f.b), Word(f.a)>>,
       <<Word("cpy"), Numeral(FALSE, <<0>>), Word(f.c)>>,
       <<Word("cpy"), Numeral(FALSE, <<0>>), Word(f.d)>>,
       <<Word("nop")>>, <<Word("nop")>>, <<Word("nop")>>,
       <<Word("nop")>>, <<Word("nop")>> >>

NoFields == [a |-> "", b |-> "", c |-> "", d |-> ""]

\* pattern_re.fullmatch(chunk) for the chunk at `offset`: the groups a and d
\* are read off its first line, b and c off its third, each must be [a-d],
\* and the chunk must be the pattern with these groups.
FullMatch(lines, offset) ==
    LET chunk == SubSeq(lines, offset + 1, offset + PatternLen)
        l1 == chunk[1]
        l3 == chunk[3]
    IN IF /\ Len(l1) = 3
          /\ Len(l3) = 3
          /\ {l1[2].word, l1[3].word, l3[2].word, l3[3].word} \subseteq Registers
          /\ chunk = Pattern(l1[2].word, l3[2].word, l3[3].word, l1[3].word)
       THEN [ok |-> TRUE,
             fields |-> [a |-> l1[2].word, b |-> l3[2].word,
                         c |-> l3[3].word, d |-> l1[3].word]]
       ELSE [ok |-> FALSE, fields |-> NoFields]

\* Mutant of FieldsDistinct: the groups are not compared.
FieldsAny(f) == Cardinality({f.a, f.b, f.c, f.d}) >= 1

\* len(set(fields.values())) == len(fields)
FieldsDistinct(f) == Cardinality({f.a, f.b, f.c, f.d}) = 4

\* The offsets at which the loop of Program.optimize does not `continue`.
Accepted(code, offset) ==
    LET m == FullMatch([i \in 1..Len(code) |-> Str(code[i])], offset)
    IN m.ok /\ FieldsDistinct(m.fields)

\* Mutant of FirstOffset: the scan runs downwards.
LastOffset(offsets) == CHOOSE o \in offsets : \A p \in offsets : o >= p

\* The offset the loop of Program.optimize stops at: it scans
\* range(len(lines) - len(pattern) + 1) upwards.
FirstOffset(offsets) == CHOOSE o \in offsets : \A p \in offsets : o <= p

\* Mutant of Rewritten: chunk_head is set inside the loop over the chunk.
RewrittenAllHeads(fields, index) ==
    [ParseLine(Replacement(fields)[index + 1]).ins
        EXCEPT !.optimized = TRUE, !.chunk_head = TRUE]

\* The rewritten instruction at `index` of the chunk.
Rewritten(fields, index) ==
    [ParseLine(Replacement(fields)[index + 1]).ins
        EXCEPT !.optimized = TRUE, !.chunk_head = (index = 0)]

OptimizeError == "ValueError: Failed to optimize program."

\* Mutant of Optimized: every accepted window is rewritten, not the first.
OptimizedEveryWindow(code) ==
    LET lines == [i \in 1..Len(code) |-> Str(code[i])]
        offsets == {o \in 0..(Len(code) - PatternLen) : Accepted(code, o)}
        at(i) == CHOOSE o \in offsets : i - 1 \in o..(o + PatternLen - 1)
    IN IF offsets = {}
       THEN [ok |-> FALSE, code |-> code, offset |-> 0, fields |-> NoFields]
       ELSE [ok |-> TRUE,
             code |-> [i \in 1..Len(code) |->
                         IF \E o \in offsets : i - 1 \in o..(o + PatternLen - 1)
                         THEN Rewritten(FullMatch(lines, at(i)).fields,
                                        i - 1 - at(i))
                         ELSE code[i]],
             offset |-> FirstOffset(offsets),
             fields |-> FullMatch(lines, FirstOffset(offsets)).fields]

\* Mutant of Optimized: a window whose text matches and whose groups are not
\* distinct ends the scan (break for continue).
OptimizedBreaking(code) ==
    LET lines == [i \in 1..Len(code) |-> Str(code[i])]
        matches == {o \in 0..(Len(code) - PatternLen) : FullMatch(lines, o).ok}
    IN IF matches = {} \/ ~Accepted(code, FirstOffset(matches))
       THEN [ok |-> FALSE, code |-> code, offset |-> 0, fields |-> NoFields]
       ELSE LET offset == FirstOffset(matches)
                fields == FullMatch(lines, offset).fields
            IN [ok |-> TRUE,
                code |-> [i \in 1..Len(code) |->
                            IF i - 1 \in offset..(offset + PatternLen - 1)
                            THEN Rewritten(fields, i - 1 - offset)
                            ELSE code[i]],
                offset |-> offset,
                fields |-> fields]

\* Mutant of Optimized: the replacement has no padding, so the three
\* instructions that do the work take the place of the eight.
OptimizedUnpadded(code) ==
    LET lines == [i \in 1..Len(code) |-> Str(code[i])]
        offsets == {o \in 0..(Len(code) - PatternLen) : Accepted(code, o)}
    IN IF offsets = {}
       THEN [ok |-> FALSE, code |-> code, offset |-> 0, fields |-> NoFields]
       ELSE LET offset == FirstOffset(offsets)
                fields == FullMatch(lines, offset).fields
            IN [ok |-> TRUE,
                code |-> SubSeq(code, 1, offset)
                         \o [i \in 1..3 |-> Rewritten(fields, i - 1)]
                         \o SubSeq(code, offset + PatternLen + 1, Len(code)),
                offset |-> offset,
                fields |-> fields]

\* Program.optimize: the code afterwards, or the error raised.
Optimized(code) ==
    LET lines == [i \in 1..Len(code) |-> Str(code[i])]
        offsets == {o \in 0..(Len(code) - PatternLen) : Accepted(code, o)}
    IN IF offsets = {}
       THEN [ok |-> FALSE, code |-> code, offset |-> 0, fields |-> NoFields]
       ELSE LET offset == FirstOffset(offsets)
                fields == FullMatch(lines, offset).fields
            IN [ok |-> TRUE,
                code |-> [i \in 1..Len(code) |->
                            IF i - 1 \in offset..(offset + PatternLen - 1)
                            THEN Rewritten(fields, i - 1 - offset)
                            ELSE code[i]],
                offset |-> offset,
                fields |-> fields]

IndexError == "IndexError: list index out of range"

JumpIntoChunkError == "ValueError: Cannot jump into an optimized chunk."

\* code[address] of a Python list: a negative address counts from the end,
\* and an address outside -len..len-1 raises IndexError.
Subscriptable(code, address) == -Len(code) <= address /\ address < Len(code)

Subscript(code, address) ==
    IF address >= 0 THEN code[address + 1] ELSE code[Len(code) + address + 1]

\* What one iteration of the loop of run() leaves behind.
Iterated(status, code, ip, registers, error) ==
    [status |-> status, code |-> code, ip |-> ip, registers |-> registers,
     error |-> error]

\* Mutant of HandleJump: the handler has no guard.
HandleJumpUnguarded(code, out) ==
    IF ~Subscriptable(code, out.address)
    THEN Iterated("raised", code, out.ip, out.registers, IndexError)
    ELSE Iterated("running", code, out.address, out.registers, "")

\* Mutant of HandleJump: the guard does not let the chunk head through.
HandleJumpNoHead(code, out) ==
    IF ~Subscriptable(code, out.address)
    THEN Iterated("raised", code, out.ip, out.registers, IndexError)
    ELSE LET target == Subscript(code, out.address)
         IN IF target.optimized
            THEN Iterated("raised", code, out.ip, out.registers,
                          JumpIntoChunkError)
            ELSE Iterated("running", code, out.address, out.registers, "")

\* The handler `except JumpToInstruction` of Program.run.
HandleJump(code, out) ==
    IF ~Subscriptable(code, out.address)
    THEN Iterated("raised", code, out.ip, out.registers, IndexError)
    ELSE LET target == Subscript(code, out.address)
         IN IF target.optimized /\ ~target.chunk_head
            THEN Iterated("raised", code, out.ip, out.registers,
                          JumpIntoChunkError)
            ELSE Iterated("running", code, out.address, out.registers, "")

\* Mutant of HandleToggle: the run goes on at the tgl, not behind it.
HandleToggleStays(code, out) ==
    IF 0 <= out.address /\ out.address < Len(code)
    THEN LET t == Toggle(code[out.address + 1])
         IN IF t.ok
            THEN Iterated("running", [code EXCEPT ![out.address + 1] = t.ins],
                          out.ip - 1, out.registers, "")
            ELSE Iterated("raised", code, out.ip, out.registers, t.error)
    ELSE Iterated("running", code, out.ip - 1, out.registers, "")

\* Mutant of HandleToggle: the instruction behind the target is toggled as
\* well.
HandleToggleBoth(code, out) ==
    IF 0 <= out.address /\ out.address < Len(code)
    THEN LET t == Toggle(code[out.address + 1])
             both == [i \in 1..Len(code) |->
                        IF i \in {out.address + 1, out.address + 2}
                           /\ Toggle(code[i]).ok
                        THEN Toggle(code[i]).ins ELSE code[i]]
         IN IF t.ok
            THEN Iterated("running", both, out.ip, out.registers, "")
            ELSE Iterated("raised", code, out.ip, out.registers, t.error)
    ELSE Iterated("running", code, out.ip, out.registers, "")

\* The handler `except ToggleInstruction` of Program.run.
HandleToggle(code, out) ==
    IF 0 <= out.address /\ out.address < Len(code)
    THEN LET t == Toggle(code[out.address + 1])
         IN IF t.ok
            THEN Iterated("running", [code EXCEPT ![out.address + 1] = t.ins],
                          out.ip, out.registers, "")
            ELSE Iterated("raised", code, out.ip, out.registers, t.error)
    ELSE Iterated("running", code, out.ip, out.registers, "")

\* Instruction.toggled of the instructions of the run's copy once the
\* handler has dealt with the ToggleInstruction `out`: toggle() counts the
\* toggles it does not refuse.
Toggled(counts, code, out) ==
    IF out.kind = "toggle" /\ 0 <= out.address /\ out.address < Len(code)
       /\ Toggle(code[out.address + 1]).ok
    THEN [counts EXCEPT ![out.address + 1] = @ + 1]
    ELSE counts

\* One iteration of the while loop of Program.run, entered with
\* 0 <= ip < len(code).
Iteration(code, ip, registers) ==
    LET out == Execute(code[ip + 1], ip, registers)
    IN CASE out.kind = "jump" -> HandleJump(code, out)
         [] out.kind = "toggle" -> HandleToggle(code, out)
         [] out.kind = "raise" ->
              Iterated("raised", code, out.ip, out.registers, out.error)
         [] OTHER -> Iterated("running", code, out.ip, out.registers, "")

\* `code = deepcopy(self.code)`: the run's copy, equal to the caller's code.
DeepCopy(code) == code

\* Mutant of CallerCode: a shallow copy, whose Instructions are the caller's.
CallerCodeShared(caller, code) == code

\* The caller's code once an iteration has left the run's copy as `code`:
\* the deep copy shares no Instruction with it.
CallerCode(caller, code) == caller

\* ------------------------------------------- day 25: the clock signal

\* Instruction.__init__ of day 25: a name and arguments, no flags.
Instruction25(name, args) ==
    [name |-> name,
     arguments |-> [i \in 1..Len(args) |-> ParseValue(args[i])]]

NoInstruction25 == Instruction25("", <<>>)

\* Program.INSTRUCTION_REGEXPS of day 25.
MatchesRegexp25(k, line) ==
    LET l == Chomp(line)
    IN CASE k = 1 -> /\ Len(l) = 2
                     /\ l[1] \in {Word("dec"), Word("inc"), Word("out")}
                     /\ IsValue(l[2])
         [] k = 2 -> /\ Len(l) = 3
                     /\ l[1] \in {Word("cpy"), Word("jnz")}
                     /\ IsValue(l[2])
                     /\ IsValue(l[3])

\* Program._parse_line of day 25.
ParseLine25(line) ==
    IF \E k \in 1..2 : MatchesRegexp25(k, line)
    THEN [ok |-> TRUE,
          ins |-> Instruction25(Chomp(line)[1].word, Tail(Chomp(line)))]
    ELSE [ok |-> FALSE, ins |-> NoInstruction25]

\* Program.from_lines of day 25 on lines that all parse.
FromLines25(lines) == [i \in 1..Len(lines) |-> ParseLine25(lines[i]).ins]

\* MachineState.__getitem__ and __setitem__ of day 25 on a key that is not a
\* register: self.registers[key] and `raise KeyError`.
KeyError == "KeyError"

\* What Instruction.execute of day 25 hands back to the loop of run().
Outcome25(kind, ip, registers, address, value, error) ==
    [kind |-> kind, ip |-> ip, registers |-> registers, address |-> address,
     value |-> value, error |-> error]

\* Mutant of Execute25: out raises OutputInstruction before it moves ip.
Execute25OutStays(ins, ip, registers) ==
    LET args == ins.arguments
        next(regs) == Outcome25("next", ip + 1, regs, 0, 0, "")
        fail(err) == Outcome25("raise", ip, registers, 0, 0, err)
    IN CASE ins.name = "cpy" ->
              IF args[2].isstr
              THEN next([registers EXCEPT
                           ![args[2].s] = FetchValue(registers, args[1])])
              ELSE fail(KeyError)
         [] ins.name = "dec" ->
              IF args[1].isstr
              THEN next([registers EXCEPT ![args[1].s] = @ - 1])
              ELSE fail(KeyError)
         [] ins.name = "inc" ->
              IF args[1].isstr
              THEN next([registers EXCEPT ![args[1].s] = @ + 1])
              ELSE fail(KeyError)
         [] ins.name = "jnz" ->
              IF FetchValue(registers, args[1]) # 0
              THEN Outcome25("jump", ip, registers,
                             ip + FetchValue(registers, args[2]), 0, "")
              ELSE next(registers)
         [] ins.name = "out" ->
              Outcome25("output", ip, registers, 0,
                        FetchValue(registers, args[1]), "")
         [] OTHER -> fail("ValueError: Unrecognized instruction")

\* Instruction.execute of day 25 on the state (ip, registers).  kind is
\* "next", "jump" (JumpToInstruction), "output" (OutputInstruction) or
\* "raise".  cpy, dec and inc index the registers with their operand as it
\* is: a literal is no key of the registers.
Execute25(ins, ip, registers) ==
    LET args == ins.arguments
        next(regs) == Outcome25("next", ip + 1, regs, 0, 0, "")
        fail(err) == Outcome25("raise", ip, registers, 0, 0, err)
    IN CASE ins.name = "cpy" ->
              IF args[2].isstr
              THEN next([registers EXCEPT
                           ![args[2].s] = FetchValue(registers, args[1])])
              ELSE fail(KeyError)
         [] ins.name = "dec" ->
              IF args[1].isstr
              THEN next([registers EXCEPT ![args[1].s] = @ - 1])
              ELSE fail(KeyError)
         [] ins.name = "inc" ->
              IF args[1].isstr
              THEN next([registers EXCEPT ![args[1].s] = @ + 1])
              ELSE fail(KeyError)
         [] ins.name = "jnz" ->
              IF FetchValue(registers, args[1]) # 0
              THEN Outcome25("jump", ip, registers,
                             ip + FetchValue(registers, args[2]), 0, "")
              ELSE next(registers)
         [] ins.name = "out" ->
              Outcome25("output", ip + 1, registers, 0,
                        FetchValue(registers, args[1]), "")
         [] OTHER -> fail("ValueError: Unrecognized instruction")

\* One iteration of the while loop of Program.run of day 25, entered with
\* 0 <= ip < len(self.code): where the generator stands afterwards
\* ("running", "suspended" at the yield, or "raised"), its state, and the
\* value it yields.
Iteration25(code, ip, registers) ==
    LET out == Execute25(code[ip + 1], ip, registers)
    IN CASE out.kind = "jump" ->
              [pc |-> "running", ip |-> out.address,
               registers |-> out.registers, yields |-> FALSE, value |-> 0,
               error |-> ""]
         [] out.kind = "output" ->
              [pc |-> "suspended", ip |-> out.ip,
               registers |-> out.registers, yields |-> TRUE,
               value |-> out.value, error |-> ""]
         [] out.kind = "raise" ->
              [pc |-> "raised", ip |-> out.ip, registers |-> out.registers,
               yields |-> FALSE, value |-> 0, error |-> out.error]
         [] OTHER ->
              [pc |-> "running", ip |-> out.ip, registers |-> out.registers,
               yields |-> FALSE, value |-> 0, error |-> ""]

\* check_limit of clock_signal_seed.
CheckLimit == 12

\* ------------------------------------- day 12: the first interpreter

\* CopyInstruction.__init__: the source is parsed, the target kept as text.
CopyInstruction(source, target) ==
    [class |-> "CopyInstruction", source |-> ParseValue(source),
     target |-> target.word]

\* IncrementInstruction.__init__
IncrementInstruction(register, increment) ==
    [class |-> "IncrementInstruction", register |-> register.word,
     increment |-> increment]

\* JumpIfNotZeroInstruction.__init__: the value is parsed; the offset is the
\* int the parser made of the second group.
JumpIfNotZeroInstruction(value, offset) ==
    [class |-> "JumpIfNotZeroInstruction", value |-> ParseValue(value),
     offset |-> offset]

NoInstruction12 == [class |-> ""]

\* A piece that [a-d] matches.
IsRegister(tok) == tok.word \in Registers

\* COPY_REGEXP, CALC_REGEXP and JUMP_REGEXP of day 12, in the order
\* Program._parse_line tries them.
MatchesRegexp12(k, line) ==
    LET l == Chomp(line)
    IN CASE k = 1 -> /\ Len(l) = 3
                     /\ l[1] = Word("cpy")
                     /\ IsValue(l[2])
                     /\ IsRegister(l[3])
         [] k = 2 -> /\ Len(l) = 2
                     /\ l[1] \in {Word("inc"), Word("dec")}
                     /\ IsRegister(l[2])
         [] k = 3 -> /\ Len(l) = 3
                     /\ l[1] = Word("jnz")
                     /\ IsValue(l[2])
                     /\ IsNumeral(l[3])

\* Program._parse_line of day 12.
ParseLine12(line) ==
    LET l == Chomp(line)
    IN IF MatchesRegexp12(1, line)
       THEN [ok |-> TRUE, ins |-> CopyInstruction(l[2], l[3])]
       ELSE IF MatchesRegexp12(2, line)
       THEN [ok |-> TRUE,
             ins |-> IncrementInstruction(l[2], IF l[1] = Word("inc")
                                                THEN 1 ELSE -1)]
       ELSE IF MatchesRegexp12(3, line)
       THEN [ok |-> TRUE,
             ins |-> JumpIfNotZeroInstruction(l[2], ParseValue(l[3]).n)]
       ELSE [ok |-> FALSE, ins |-> NoInstruction12]

\* Program.from_lines of day 12 on lines that all parse.
FromLines12(lines) == [i \in 1..Len(lines) |-> ParseLine12(lines[i]).ins]

\* __str__ of the three instruction classes of day 12.
Str12(ins) ==
    CASE ins.class = "CopyInstruction" ->
            <<Word("cpy"), StrValue(ins.source), Word(ins.target)>>
      [] ins.class = "IncrementInstruction" ->
            <<Word(IF ins.increment = 1 THEN "inc" ELSE "dec"),
              Word(ins.register)>>
      [] ins.class = "JumpIfNotZeroInstruction" ->
            <<Word("jnz"), StrValue(ins.value), StrValue(Lit(ins.offset))>>

\* Instruction.execute of day 12: state.ip += self._execute(state).  The
\* regular expressions let only registers through as targets, so that
\* MachineState.__setitem__ never raises.
Execute12(ins, ip, registers) ==
    CASE ins.class = "CopyInstruction" ->
            [ip |-> ip + 1,
             registers |-> [registers EXCEPT
                              ![ins.target] = FetchValue(registers, ins.source)]]
      [] ins.class = "IncrementInstruction" ->
            [ip |-> ip + 1,
             registers |-> [registers EXCEPT
                              ![ins.register] = @ + ins.increment]]
      [] ins.class = "JumpIfNotZeroInstruction" ->
            [ip |-> IF FetchValue(registers, ins.value) # 0
                    THEN ip + ins.offset ELSE ip + 1,
             registers |-> registers]

\* ------------------------------------------- from_lines of all three

Variants == {"day-12", "day-23", "day-25"}

\* Program._parse_line of the variant on one line.
ParseLineOf(variant, line) ==
    CASE variant = "day-12" -> ParseLine12(line)
      [] variant = "day-23" -> ParseLine(line)
      [] variant = "day-25" -> ParseLine25(line)

\* Mutant of FromLinesOutcome: all lines are parsed and the last line that
\* matched nothing is reported.
FromLinesLastError(variant, lines) ==
    LET bad == {i \in DOMAIN lines : ~ParseLineOf(variant, lines[i]).ok}
    IN IF bad = {}
       THEN [ok |-> TRUE,
             code |-> [i \in DOMAIN lines |-> ParseLineOf(variant, lines[i]).ins],
             error |-> NoError]
       ELSE [ok |-> FALSE, code |-> <<>>,
             error |-> UnrecognizedInstruction(
                           lines[CHOOSE i \in bad : \A j \in bad : j <= i])]

\* Program.from_lines: cls([cls._parse_line(line) for line in lines]).  The
\* list comprehension parses the lines in order; the first line that matches
\* nothing raises, and no Program is made.
FromLinesOutcome(variant, lines) ==
    LET bad == {i \in DOMAIN lines : ~ParseLineOf(variant, lines[i]).ok}
    IN IF bad = {}
       THEN [ok |-> TRUE,
             code |-> [i \in DOMAIN lines |-> ParseLineOf(variant, lines[i]).ins],
             error |-> NoError]
       ELSE [ok |-> FALSE, code |-> <<>>,
             error |-> UnrecognizedInstruction(
                           lines[CHOOSE i \in bad : \A j \in bad : i <= j])]

\* str(instruction) of the variant.
StrOf(variant, ins) ==
    IF variant = "day-12" THEN Str12(ins) ELSE Str(ins)

\* --------------------------------------------------------------- state

VARIABLES
    self_code,   \* Program.code of the caller's Program
    script,      \* the calls the caller has still to make
    status,      \* "idle", or of the latest run: "running", "returned", "raised"
    initial,     \* run(): the argument initial_state
    code,        \* run(): the deep copy the run executes and toggles
    ip,          \* run(): state.ip
    registers,   \* run(): state.registers
    count,       \* run(): iterations so far
    error,       \* the error the latest run raised
    last,        \* history: the latest iteration of the run
    toggled,     \* run(): Instruction.toggled of each instruction of the copy
    log,         \* history: the calls completed
    signal_code, \* day 25: Program.code, which its generators read
    generators,  \* day 25: the generators program.run(...) has made
    driver,      \* day 25: the consumer of the generators
    run12,       \* day 12: a call of Program.run
    parser       \* a call of Program.from_lines, and str() on what it made

run_vars ==
    <<self_code, script, status, initial, code, ip, registers, count, error,
      last, toggled, log>>

signal_vars == <<signal_code, generators, driver>>

first_vars == <<run12, parser>>

vars == <<run_vars, signal_vars, first_vars>>

ZeroRegisters == MachineState(NoInitial).registers

NoLast ==
    [kind |-> "none", ip |-> 0, address |-> 0, registers |-> ZeroRegisters,
     code |-> <<>>]

CallOptimize == [op |-> "optimize", initial |-> NoInitial]
CallRun(regs) == [op |-> "run", initial |-> regs]

LogEntry(op, init, outcome, regs, caller) ==
    [op |-> op, initial |-> init, outcome |-> outcome, registers |-> regs,
     code |-> caller]

\* The consumer of day 25: clock_signal_seed ("seed") with the seed it is
\* at, the indexes it has taken from range(check_limit) and the seed it
\* returned, or a consumer that pulls as it likes ("pulls").
Driver(mode, pc) ==
    [mode |-> mode, pc |-> pc, seed |-> 0, taken |-> 0, result |-> 0]

NoDriver == Driver("none", "")

\* A call program.run(initial_state) of day 12: status is "called" (nothing
\* of the body executed), "running" or "returned"; count is history.
Run12(program, init) ==
    [status |-> "called", code |-> program, initial |-> init, ip |-> 0,
     registers |-> ZeroRegisters, count |-> 0]

NoRun12 == [Run12(<<>>, NoInitial) EXCEPT !.status = "none"]

\* A call Program.from_lines(lines) of a variant: pc is "called", "parsed"
\* (the Program is there), "raised", or "formatted" (str() has been applied
\* to every instruction of the Program, giving text).
Parser(variant, lines) ==
    [variant |-> variant, lines |-> lines, pc |-> "called", code |-> <<>>,
     error |-> NoError, text |-> <<>>]

NoParser == [Parser("", <<>>) EXCEPT !.pc = "none"]

\* The caller of day 23 with its Program and the calls it will make.
Caller(program, calls) ==
    /\ self_code = program
    /\ script = calls
    /\ status = "idle"
    /\ initial = NoInitial
    /\ code = <<>>
    /\ ip = 0
    /\ registers = ZeroRegisters
    /\ count = 0
    /\ error = ""
    /\ last = NoLast
    /\ toggled = <<>>
    /\ log = <<>>

InitWith(program, calls) ==
    /\ Caller(program, calls)
    /\ signal_code = <<>>
    /\ generators = <<>>
    /\ driver = NoDriver
    /\ run12 = NoRun12
    /\ parser = NoParser

\* ------------------------------------------------------------- actions

\* program.optimize()
Optimize ==
    /\ status # "running"
    /\ script # <<>>
    /\ Head(script).op = "optimize"
    /\ LET o == Optimized(self_code)
       IN /\ self_code' = o.code
          /\ log' = Append(log, LogEntry("optimize", NoInitial,
                                         IF o.ok THEN "ok" ELSE OptimizeError,
                                         ZeroRegisters, self_code))
    /\ script' = Tail(script)
    /\ status' = "idle"
    /\ initial' = NoInitial
    /\ code' = <<>>
    /\ ip' = 0
    /\ registers' = ZeroRegisters
    /\ count' = 0
    /\ error' = ""
    /\ last' = NoLast
    /\ toggled' = <<>>
    /\ UNCHANGED <<signal_vars, first_vars>>

\* program.run(initial_state): up to the first test of the while loop.
RunBegin ==
    /\ status # "running"
    /\ script # <<>>
    /\ Head(script).op = "run"
    /\ initial' = Head(script).initial
    /\ code' = DeepCopy(self_code)
    /\ ip' = MachineState(Head(script).initial).ip
    /\ registers' = MachineState(Head(script).initial).registers
    /\ count' = 0
    /\ status' = "running"
    /\ error' = ""
    /\ last' = NoLast
    /\ toggled' = [k \in DOMAIN self_code |-> 0]
    /\ script' = Tail(script)
    /\ UNCHANGED <<self_code, log>>
    /\ UNCHANGED <<signal_vars, first_vars>>

\* One iteration of `while 0 <= state.ip < len(code)`.
RunStep ==
    /\ status = "running"
    /\ 0 <= ip /\ ip < Len(code)
    /\ count < MaxSteps
    /\ LET it == Iteration(code, ip, registers)
           out == Execute(code[ip + 1], ip, registers)
       IN /\ status' = it.status
          /\ code' = it.code
          /\ ip' = it.ip
          /\ registers' = it.registers
          /\ error' = it.error
          /\ self_code' = CallerCode(self_code, it.code)
          /\ last' = [kind |-> out.kind, ip |-> ip, address |-> out.address,
                      registers |-> registers, code |-> code]
          /\ toggled' = Toggled(toggled, code, out)
          /\ log' = IF it.status = "raised"
                    THEN Append(log, LogEntry("run", initial, it.error,
                                              it.registers, self_code))
                    ELSE log
    /\ count' = count + 1
    /\ UNCHANGED <<script, initial>>
    /\ UNCHANGED <<signal_vars, first_vars>>

\* The while loop ends and run() returns the state.
RunReturn ==
    /\ status = "running"
    /\ ~(0 <= ip /\ ip < Len(code))
    /\ status' = "returned"
    /\ log' = Append(log, LogEntry("run", initial, "returned", registers,
                                   self_code))
    /\ UNCHANGED <<self_code, script, initial, code, ip, registers, count,
                   error, last, toggled>>
    /\ UNCHANGED <<signal_vars, first_vars>>

Next == Optimize \/ RunBegin \/ RunStep \/ RunReturn

\* ------------------------------------------------- programs and callers

\* The text of a literal.
Num(n) == StrValue(Lit(n))

\* Lines every regular expression of the parser can yield, and a few more.
Alphabet ==
    { <<Word("inc"), Word("a")>>,
      <<Word("dec"), Word("b")>>,
      <<Word("inc"), Num(1)>>,
      <<Word("cpy"), Word("b"), Word("a")>>,
      <<Word("cpy"), Word("a"), Num(1)>>,
      <<Word("jnz"), Word("a"), Num(2)>>,
      <<Word("jnz"), Num(1), Num(-1)>>,
      <<Word("jnz"), Word("b"), Word("a")>>,
      <<Word("jnz"), Num(1), Num(-3)>>,
      <<Word("tgl"), Word("a")>>,
      <<Word("tgl"), Num(1)>>,
      <<Word("tgl"), Num(-1)>>,
      <<Word("nop")>>,
      <<Word("mul"), Word("b"), Word("a")>> }

RECURSIVE Texts(_, _)
\* The texts of 1..n lines over `lines`.
Texts(lines, n) ==
    IF n = 0 THEN {}
    ELSE {<<l>> : l \in lines}
         \cup Texts(lines, n - 1)
         \cup {Append(t, l) : t \in Texts(lines, n - 1), l \in lines}

\* Scenario A: the example program of day 12.
ScenarioA ==
    << <<Word("cpy"), Num(41), Word("a")>>,
       <<Word("inc"), Word("a")>>,
       <<Word("inc"), Word("a")>>,
       <<Word("dec"), Word("a")>>,
       <<Word("jnz"), Word("a"), Num(2)>>,
       <<Word("dec"), Word("a")>> >>

\* Scenario B: the example program of day 23.
ScenarioB ==
    << <<Word("cpy"), Num(2), Word("a")>>,
       <<Word("tgl"), Word("a")>>,
       <<Word("tgl"), Word("a")>>,
       <<Word("tgl"), Word("a")>>,
       <<Word("cpy"), Num(1), Word("a")>>,
       <<Word("dec"), Word("a")>>,
       <<Word("dec"), Word("a")>> >>

\* The nested loops that add x to w, z times over, written with the
\* registers w, x, y, z.
IdiomLines(w, x, y, z) ==
    << <<Word("cpy"), Word(w), Word(z)>>,
       <<Word("cpy"), Num(0), Word(w)>>,
       <<Word("cpy"), Word(x), Word(y)>>,
       <<Word("inc"), Word(w)>>,
       <<Word("dec"), Word(y)>>,
       <<Word("jnz"), Word(y), Num(-2)>>,
       <<Word("dec"), Word(z)>>,
       <<Word("jnz"), Word(z), Num(-5)>> >>

\* The assignments of four distinct registers to <<w, x, y, z>>.
Bindings ==
    {f \in [1..4 -> Registers] : \A i, j \in 1..4 : f[i] = f[j] => i = j}

Idiom(f) == IdiomLines(f[1], f[2], f[3], f[4])

\* Register files with every register in 0..MaxInit.
RegisterFiles == [Registers -> 0..MaxInit]

\* The initial states the callers of small programs pass.
SmallInitials ==
    { NoInitial,
      [r \in {"a", "b"} |-> IF r = "a" THEN 1 ELSE 2],
      [r \in {"a", "b"} |-> IF r = "a" THEN 2 ELSE -1] }

\* A tgl that toggles a mul and a tgl that toggles a tgl.
ToggleOthers ==
    << <<Word("tgl"), Num(2)>>,
       <<Word("tgl"), Num(-1)>>,
       <<Word("mul"), Word("b"), Word("a")>> >>

SmallPrograms ==
    Texts(Alphabet, MaxLen) \cup {ScenarioA, ScenarioB, ToggleOthers}

SmallScripts ==
    {<<CallRun(i)>> : i \in SmallInitials}
    \cup {<<CallRun(i), CallRun(j)>> : i, j \in SmallInitials}
    \cup {<<CallOptimize, CallRun(i)>> : i \in SmallInitials}
    \cup {<<CallRun(p[1]), CallRun(p[2]), CallRun(p[1])>> :
            p \in {q \in SmallInitials \X SmallInitials : q[1] # q[2]}}

\* Lines put before the idiom: jumps to the chunk's head, into it and past
\* it, toggles of its instructions and of what follows it.
Before ==
    { <<Word("jnz"), Num(1), Num(1)>>,
      <<Word("jnz"), Num(1), Num(4)>>,
      <<Word("jnz"), Num(1), Num(9)>>,
      <<Word("tgl"), Num(1)>>,
      <<Word("tgl"), Num(5)>>,
      <<Word("tgl"), Num(9)>>,
      <<Word("inc"), Word("a")>> }

\* Lines put after the idiom.
After ==
    { <<Word("jnz"), Num(1), Num(-5)>>,
      <<Word("jnz"), Num(1), Num(-8)>>,
      <<Word("jnz"), Num(1), Num(-9)>>,
      <<Word("jnz"), Num(1), Num(-13)>>,
      <<Word("tgl"), Num(-1)>>,
      <<Word("tgl"), Num(-8)>>,
      <<Word("inc"), Word("a")>> }

Optional(lines) == {<<>>} \cup {<<l>> : l \in lines}

ChunkBindings == {<<"a", "b", "c", "d">>, <<"b", "a", "d", "c">>}

\* One idiom with at most one line before and after it.
ChunkPrograms ==
    {pre \o Idiom(f) \o post :
        pre \in Optional(Before), f \in ChunkBindings, post \in Optional(After)}

\* Two idioms, and an idiom behind a window that has its shape but binds
\* two of its groups to one register.
TwoChunkPrograms ==
    { Idiom(<<"a", "b", "c", "d">>) \o Idiom(<<"b", "a", "c", "d">>),
      Idiom(<<"a", "b", "c", "d">>) \o <<  <<Word("tgl"), Word("c")>> >>
          \o Idiom(<<"b", "a", "d", "c">>),
      IdiomLines("a", "b", "b", "d") \o Idiom(<<"a", "b", "c", "d">>),
      <<  <<Word("inc"), Word("a")>> >> \o IdiomLines("a", "b", "c", "a")
          \o Idiom(<<"b", "a", "d", "c">>) }

ChunkInitials ==
    { NoInitial,
      [r \in Registers |-> IF r \in {"a", "d"} THEN 2 ELSE 1],
      [r \in {"a", "b"} |-> IF r = "a" THEN 1 ELSE 2] }

ChunkScripts ==
    {<<CallOptimize, CallRun(i)>> : i \in ChunkInitials}
    \cup {<<CallOptimize, CallOptimize, CallRun(i)>> : i \in ChunkInitials}
    \cup {<<CallRun(i)>> : i \in ChunkInitials}

TwoChunkScripts ==
    ChunkScripts
    \cup {<<CallOptimize, CallOptimize, CallOptimize, CallRun(i)>> :
            i \in ChunkInitials}

\* The idiom with its line at `index` (from 1) replaced.
IdiomBut(index, line) ==
    [Idiom(<<"a", "b", "c", "d">>) EXCEPT ![index] = line]

\* Programs of eight lines and more that no call of optimize() rewrites: the
\* idiom with one line off, with two groups on one register, and cut short.
NearMissPrograms ==
    { IdiomBut(2, <<Word("cpy"), Num(1), Word("a")>>),
      IdiomBut(4, <<Word("inc"), Word("b")>>),
      IdiomBut(6, <<Word("jnz"), Word("c"), Num(-3)>>),
      IdiomBut(8, <<Word("jnz"), Word("d"), Num(5)>>),
      IdiomBut(7, <<Word("dec"), Word("c")>>),
      IdiomBut(1, <<Word("jnz"), Word("a"), Word("d")>>),
      IdiomBut(3, <<Word("cpy"), Num(2), Word("c")>>),
      IdiomLines("a", "b", "b", "d"),
      IdiomLines("a", "a", "c", "d") \o <<  <<Word("inc"), Word("a")>> >>,
      SubSeq(Idiom(<<"a", "b", "c", "d">>), 1, 7),
      SubSeq(Idiom(<<"a", "b", "c", "d">>), 2, 8)
          \o <<  <<Word("cpy"), Word("a"), Word("d")>> >> }

\* Small programs run once or twice, and programs that hold the idiom or
\* come close to it.
\* A loop whose tgl toggles the line behind it at every turn.
ToggleTwicePrograms ==
    { << <<Word("tgl"), Num(1)>>, line, <<Word("jnz"), Num(1), Num(-2)>> >> :
        line \in { <<Word("inc"), Word("a")>>,
                   <<Word("dec"), Word("b")>>,
                   <<Word("cpy"), Word("b"), Word("a")>>,
                   <<Word("jnz"), Word("b"), Num(1)>>,
                   <<Word("tgl"), Num(5)>> } }

Init ==
    \/ \E t \in SmallPrograms, s \in SmallScripts : InitWith(FromLines(t), s)
    \/ \E t \in ToggleTwicePrograms, i \in SmallInitials :
          InitWith(FromLines(t), <<CallRun(i)>>)
    \/ \E t \in ChunkPrograms, s \in ChunkScripts : InitWith(FromLines(t), s)
    \/ \E t \in TwoChunkPrograms, s \in TwoChunkScripts :
          InitWith(FromLines(t), s)
    \/ \E t \in NearMissPrograms, s \in ChunkScripts :
          InitWith(FromLines(t), s)

Spec == Init /\ [][Next]_vars

\* The idiom alone, run before and after optimize() from the same registers.
InitIdiom ==
    \E f \in Bindings, i \in RegisterFiles :
        InitWith(FromLines(Idiom(f)), <<CallRun(i), CallOptimize, CallRun(i)>>)

SpecIdiom == InitIdiom /\ [][Next]_vars

\* ------------------------------ day 25: generators and their consumers

\* Iterations of the while loop one generator is followed through: enough
\* for check_limit values of a loop of three instructions, and some more.
MaxSignalSteps == 4 * CheckLimit

NoLast25 ==
    [ins |-> NoInstruction25, ip |-> 0, registers |-> ZeroRegisters]

\* The generator program.run(initial_state) returns: nothing of the body of
\* run() has been executed.  pc is "created", "running" (inside next()),
\* "suspended" (at the yield), "returned" or "raised"; outputs, count,
\* executed_out and last are history: the values yielded, the iterations
\* made, those of them that executed an out, and the latest iteration.
Generator(init) ==
    [initial |-> init, pc |-> "created", ip |-> 0,
     registers |-> ZeroRegisters, count |-> 0, outputs |-> <<>>,
     executed_out |-> 0, error |-> "", last |-> NoLast25]

\* next(generator): a generator that was not started builds its
\* MachineState, a suspended one goes on behind its yield.
Started(gen) ==
    IF gen.pc = "created"
    THEN [gen EXCEPT !.pc = "running",
                     !.ip = MachineState(gen.initial).ip,
                     !.registers = MachineState(gen.initial).registers]
    ELSE [gen EXCEPT !.pc = "running"]

\* The generator after one iteration of its while loop.
Stepped(gen) ==
    LET it == Iteration25(signal_code, gen.ip, gen.registers)
    IN [gen EXCEPT !.pc = it.pc,
                   !.ip = it.ip,
                   !.registers = it.registers,
                   !.count = @ + 1,
                   !.outputs = IF it.yields THEN Append(@, it.value) ELSE @,
                   !.executed_out =
                       IF signal_code[gen.ip + 1].name = "out" THEN @ + 1 ELSE @,
                   !.error = it.error,
                   !.last = [ins |-> signal_code[gen.ip + 1], ip |-> gen.ip,
                             registers |-> gen.registers]]

\* Mutant of OtherGenerator: the MachineState is kept with the Program, so
\* that all its generators work on one.
OtherGeneratorSharing(gen, stepped) ==
    IF gen.pc = "created" THEN gen
    ELSE [gen EXCEPT !.ip = stepped.ip, !.registers = stepped.registers]

\* Another generator of the same Program once this one has made an
\* iteration: `state` is a local variable of each generator.
OtherGenerator(gen, stepped) == gen

InRange25(address) == 0 <= address /\ address < Len(signal_code)

Quiet == \A h \in DOMAIN generators : generators[h].pc # "running"

\* A consumer calls next() on generator g.
Pull(g) ==
    /\ driver.mode = "pulls"
    /\ Quiet
    /\ generators[g].pc \in {"created", "suspended"}
    /\ Len(generators[g].outputs) < MaxPulls
    /\ generators' = [generators EXCEPT ![g] = Started(@)]
    /\ UNCHANGED <<signal_code, driver>>
    /\ UNCHANGED <<run_vars, first_vars>>

\* One iteration of `while 0 <= state.ip < len(self.code)` in generator g.
SignalStep(g) ==
    /\ generators[g].pc = "running"
    /\ InRange25(generators[g].ip)
    /\ generators[g].count < MaxSignalSteps
    /\ generators' =
          [h \in DOMAIN generators |->
              IF h = g THEN Stepped(generators[g])
              ELSE OtherGenerator(generators[h], Stepped(generators[g]))]
    /\ UNCHANGED <<signal_code, driver>>
    /\ UNCHANGED <<run_vars, first_vars>>

\* The while loop of generator g ends: next() raises StopIteration.
SignalReturn(g) ==
    /\ generators[g].pc = "running"
    /\ ~InRange25(generators[g].ip)
    /\ generators' = [generators EXCEPT ![g].pc = "returned"]
    /\ UNCHANGED <<signal_code, driver>>
    /\ UNCHANGED <<run_vars, first_vars>>

\* clock_signal_seed: `for seed in itertools.count(1)` and the call of
\* program.run with the seed in register a.
SeedFor ==
    /\ driver.mode = "seed"
    /\ driver.pc = "for"
    /\ driver.seed < MaxSeed
    /\ generators' =
          Append(generators, Generator([r \in {"a"} |-> driver.seed + 1]))
    /\ driver' = [driver EXCEPT !.pc = "zip", !.seed = @ + 1, !.taken = 0]
    /\ UNCHANGED signal_code
    /\ UNCHANGED <<run_vars, first_vars>>

\* zip takes the next index of range(check_limit) and then calls next() on
\* the generator.
ZipNext ==
    /\ driver.mode = "seed"
    /\ driver.pc = "zip"
    /\ driver.taken < CheckLimit
    /\ generators' = [generators EXCEPT ![driver.seed] = Started(@)]
    /\ driver' = [driver EXCEPT !.pc = "next", !.taken = @ + 1]
    /\ UNCHANGED signal_code
    /\ UNCHANGED <<run_vars, first_vars>>

\* The body of the for loop: `if index % 2 != signal: break`.
SeedBody ==
    /\ driver.mode = "seed"
    /\ driver.pc = "next"
    /\ generators[driver.seed].pc = "suspended"
    /\ LET index == driver.taken - 1
           signal == generators[driver.seed].outputs[
                         Len(generators[driver.seed].outputs)]
       IN driver' = [driver EXCEPT
                        !.pc = IF index % 2 # signal THEN "for" ELSE "zip"]
    /\ UNCHANGED <<signal_code, generators>>
    /\ UNCHANGED <<run_vars, first_vars>>

\* zip is exhausted, because the range is or because the generator is, and
\* the else of the for loop returns the seed.
SeedReturn ==
    /\ driver.mode = "seed"
    /\ \/ driver.pc = "zip" /\ driver.taken = CheckLimit
       \/ driver.pc = "next" /\ generators[driver.seed].pc = "returned"
    /\ driver' = [driver EXCEPT !.pc = "returned", !.result = driver.seed]
    /\ UNCHANGED <<signal_code, generators>>
    /\ UNCHANGED <<run_vars, first_vars>>

\* An error of the generator leaves clock_signal_seed.
SeedRaise ==
    /\ driver.mode = "seed"
    /\ driver.pc = "next"
    /\ generators[driver.seed].pc = "raised"
    /\ driver' = [driver EXCEPT !.pc = "raised"]
    /\ UNCHANGED <<signal_code, generators>>
    /\ UNCHANGED <<run_vars, first_vars>>

NextSignal ==
    \/ \E g \in DOMAIN generators : Pull(g)
    \/ \E g \in DOMAIN generators : SignalStep(g)
    \/ \E g \in DOMAIN generators : SignalReturn(g)
    \/ SeedFor
    \/ ZipNext
    \/ SeedBody
    \/ SeedReturn
    \/ SeedRaise

\* Lines both regular expressions of day 25 yield.
SignalAlphabet ==
    { <<Word("out"), Word("a")>>,
      <<Word("out"), Num(1)>>,
      <<Word("inc"), Word("a")>>,
      <<Word("dec"), Word("a")>>,
      <<Word("inc"), Num(1)>>,
      <<Word("cpy"), Word("a"), Num(1)>>,
      <<Word("cpy"), Num(1), Word("a")>>,
      <<Word("jnz"), Word("a"), Num(-1)>>,
      <<Word("jnz"), Num(1), Num(2)>> }

\* A signal for the seed 2 only: any other seed fails at the first value.
ClockAtTwo ==
    << <<Word("dec"), Word("a")>>,
       <<Word("dec"), Word("a")>>,
       <<Word("jnz"), Word("a"), Num(4)>>,
       <<Word("out"), Num(0)>>,
       <<Word("out"), Num(1)>>,
       <<Word("jnz"), Num(1), Num(-2)>>,
       <<Word("out"), Num(1)>> >>

\* A signal for the seed 2 only: the seed 1 fails at the third value.
ClockLate ==
    << <<Word("dec"), Word("a")>>,
       <<Word("dec"), Word("a")>>,
       <<Word("out"), Num(0)>>,
       <<Word("out"), Num(1)>>,
       <<Word("out"), Word("a")>>,
       <<Word("out"), Num(1)>>,
       <<Word("jnz"), Num(1), Num(-4)>> >>

\* Two values of a signal, and the program ends.
ClockShort == << <<Word("out"), Num(0)>>, <<Word("out"), Num(1)>> >>

\* A loop that yields nothing.
ClockSilent == << <<Word("jnz"), Num(1), Num(0)>> >>

\* A jump by the value of a register: not taken for a = 0, to the next line
\* for a = 1, over one out for a = 2.
JumpByRegister ==
    << <<Word("jnz"), Word("a"), Word("a")>>,
       <<Word("out"), Word("a")>>,
       <<Word("out"), Num(1)>> >>

SignalPrograms ==
    Texts(SignalAlphabet, MaxLen) \cup {ClockAtTwo, ClockLate, JumpByRegister}

ClockPrograms ==
    Texts(SignalAlphabet, MaxLen)
    \cup {ClockAtTwo, ClockLate, ClockShort, ClockSilent}

\* What callers pass as initial_state: register a, as clock_signal_seed does.
SignalInitials == {[r \in {"a"} |-> n] : n \in 0..MaxInit}

\* The caller of day 23 is not there.
NoCaller ==
    /\ self_code = <<>>
    /\ script = <<>>
    /\ status = "idle"
    /\ initial = NoInitial
    /\ code = <<>>
    /\ ip = 0
    /\ registers = ZeroRegisters
    /\ count = 0
    /\ error = ""
    /\ last = NoLast
    /\ toggled = <<>>
    /\ log = <<>>

\* A Program of day 25 with two generators a consumer pulls from as it
\* likes, or with clock_signal_seed called on it.
InitSignal ==
    /\ NoCaller
    /\ run12 = NoRun12
    /\ parser = NoParser
    /\ \/ \E t \in SignalPrograms, i, j \in SignalInitials :
             /\ signal_code = FromLines25(t)
             /\ generators = <<Generator(i), Generator(j)>>
             /\ driver = Driver("pulls", "")
       \/ \E t \in ClockPrograms :
             /\ signal_code = FromLines25(t)
             /\ generators = <<>>
             /\ driver = Driver("seed", "for")

SpecSignal == InitSignal /\ [][NextSignal]_vars

\* The callers of day 23 and the consumers of day 25.
SpecAll == (Init \/ InitSignal) /\ [][Next \/ NextSignal]_vars

\* ------------------------------------------- day 12: Program.run

\* program.run(initial_state) of day 12: up to the first test of the loop.
Run12Begin ==
    /\ run12.status = "called"
    /\ run12' = [run12 EXCEPT
                   !.status = "running",
                   !.ip = MachineState(run12.initial).ip,
                   !.registers = MachineState(run12.initial).registers]
    /\ UNCHANGED <<run_vars, signal_vars, parser>>

\* One iteration of `while 0 <= state.ip < len(self.code)` of day 12.
Run12Step ==
    /\ run12.status = "running"
    /\ 0 <= run12.ip /\ run12.ip < Len(run12.code)
    /\ run12.count < MaxSteps
    /\ LET out == Execute12(run12.code[run12.ip + 1], run12.ip, run12.registers)
       IN run12' = [run12 EXCEPT !.ip = out.ip,
                                 !.registers = out.registers,
                                 !.count = @ + 1]
    /\ UNCHANGED <<run_vars, signal_vars, parser>>

\* The while loop of day 12 ends and run() returns the state.
Run12Return ==
    /\ run12.status = "running"
    /\ ~(0 <= run12.ip /\ run12.ip < Len(run12.code))
    /\ run12' = [run12 EXCEPT !.status = "returned"]
    /\ UNCHANGED <<run_vars, signal_vars, parser>>

\* Lines the parser of day 12 accepts.
Alphabet12 ==
    { <<Word("inc"), Word("a")>>,
      <<Word("dec"), Word("a")>>,
      <<Word("dec"), Word("b")>>,
      <<Word("cpy"), Word("b"), Word("a")>>,
      <<Word("cpy"), Num(1), Word("b")>>,
      <<Word("jnz"), Word("a"), Num(2)>>,
      <<Word("jnz"), Word("a"), Num(-1)>>,
      <<Word("jnz"), Word("b"), Num(-2)>>,
      <<Word("jnz"), Num(1), Num(-3)>>,
      <<Word("jnz"), Num(1), Num(0)>> }

\* One text run by both interpreters from the same registers.
InitCompare ==
    \E t \in Texts(Alphabet12, MaxLen) \cup {ScenarioA}, i \in SmallInitials :
        /\ \A k \in DOMAIN t : ParseLine12(t[k]).ok
        /\ Caller(FromLines(t), <<CallRun(i)>>)
        /\ run12 = Run12(FromLines12(t), i)
        /\ signal_code = <<>>
        /\ generators = <<>>
        /\ driver = NoDriver
        /\ parser = NoParser

NextCompare ==
    RunBegin \/ RunStep \/ RunReturn \/ Run12Begin \/ Run12Step \/ Run12Return

SpecCompare == InitCompare /\ [][NextCompare]_vars

\* ------------------------------------------- from_lines and str()

\* Program.from_lines(lines), the whole call.
FromLinesCall ==
    /\ parser.pc = "called"
    /\ LET o == FromLinesOutcome(parser.variant, parser.lines)
       IN parser' = [parser EXCEPT !.pc = IF o.ok THEN "parsed" ELSE "raised",
                                   !.code = o.code,
                                   !.error = o.error]
    /\ UNCHANGED <<run_vars, signal_vars, run12>>

\* str(instruction) for every instruction of the Program.
Format ==
    /\ parser.pc = "parsed"
    /\ parser' = [parser EXCEPT
                    !.pc = "formatted",
                    !.text = [i \in DOMAIN parser.code |->
                                StrOf(parser.variant, parser.code[i])]]
    /\ UNCHANGED <<run_vars, signal_vars, run12>>

\* Lines as a file may hold them: of every form one of the parsers knows,
\* with integers written in more than one way, with a line feed left on,
\* and lines no parser knows.
RawAlphabet ==
    { <<Word("inc"), Word("a")>>,
      <<Word("dec"), Word("d")>>,
      <<Word("inc"), Num(1)>>,
      <<Word("cpy"), Num(7), Word("a")>>,
      <<Word("cpy"), Numeral(FALSE, <<0, 0, 7>>), Word("a")>>,
      <<Word("cpy"), Numeral(TRUE, <<0>>), Word("b")>>,
      <<Word("cpy"), Word("a"), Num(10)>>,
      <<Word("jnz"), Word("a"), Num(-2)>>,
      <<Word("jnz"), Num(1), Numeral(TRUE, <<0, 2>>)>>,
      <<Word("jnz"), Num(0), Word("c")>>,
      <<Word("tgl"), Word("a")>>,
      <<Word("tgl"), Num(-1)>>,
      <<Word("out"), Word("b")>>,
      <<Word("out"), Numeral(FALSE, <<0, 1>>)>>,
      <<Word("nop")>>,
      <<Word("mul"), Word("b"), Word("a")>>,
      <<Word("inc"), Word("a"), Newline>>,
      <<Word("inc"), Word("e")>>,
      <<Word("inc")>>,
      <<Word("inc"), Word(""), Word("a")>>,
      <<Word("bogus")>>,
      <<>> }

InitParse ==
    /\ NoCaller
    /\ signal_code = <<>>
    /\ generators = <<>>
    /\ driver = NoDriver
    /\ run12 = NoRun12
    /\ \E v \in Variants, t \in Texts(RawAlphabet, MaxLen) :
          parser = Parser(v, t)

NextParse == FromLinesCall \/ Format

SpecParse == InitParse /\ [][NextParse]_vars

\* -------------------------------------------------------------- claims

InRange(c, address) == 0 <= address /\ address < Len(c)

\* The latest iteration executed a jnz that left by JumpToInstruction.
JumpTaken == status \in {"running", "raised"} /\ last.kind = "jump"

\* The latest iteration executed a tgl.
ToggleDone == status \in {"running", "raised"} /\ last.kind = "toggle"

LastEntry == log[Len(log)]

\* C1: a taken jnz whose target address is outside [0, len(program)) halts
\* the run normally: no error is raised, and run() returns the register file
\* as it was at the jump.
C1_JumpOutOfRangeHalts ==
    /\ (JumpTaken /\ ~InRange(last.code, last.address)) =>
          /\ status = "running"
          /\ ip = last.address
          /\ registers = last.registers
    /\ (status = "returned" /\ last.kind = "jump") =>
          /\ LastEntry.outcome = "returned"
          /\ LastEntry.registers = last.registers

\* A run of `program` from registers all 0 has ended.
Ended(program) ==
    /\ status \in {"returned", "raised"}
    /\ LastEntry.code = FromLines(program)
    /\ MachineState(initial).registers = ZeroRegisters

\* C2: the program cpy 41 a / inc a / inc a / dec a / jnz a 2 / dec a, run
\* with all registers 0, terminates normally with a = 42.
C2_ScenarioA ==
    /\ Ended(ScenarioA) => (status = "returned" /\ registers["a"] = 42)
    /\ (status = "running" /\ code = FromLines(ScenarioA)) => count <= 6

\* C3: the program cpy 2 a / tgl a / tgl a / tgl a / cpy 1 a / dec a / dec a,
\* run with all registers 0, terminates normally with a = 3.
C3_ScenarioB ==
    /\ Ended(ScenarioB) => (status = "returned" /\ registers["a"] = 3)
    /\ (status = "running" /\ self_code = FromLines(ScenarioB)) => count <= 7

\* The idiom program of a behaviour of SpecIdiom, as parsed, and the
\* registers its runs start from.
IdiomCode == IF log = <<>> THEN self_code ELSE log[1].code
IdiomInitial ==
    MachineState(IF log = <<>> THEN initial ELSE log[1].initial).registers

\* The registers the idiom binds: cpy w z heads it, cpy x y is its third line.
RegW == IdiomCode[1].arguments[1].s
RegZ == IdiomCode[1].arguments[2].s
RegX == IdiomCode[3].arguments[1].s
RegY == IdiomCode[3].arguments[2].s

\* A run that is still inside the program when the model stops following it.
CutOff == status = "running" /\ InRange(code, ip) /\ count >= MaxSteps

\* A state of a run of the idiom as parsed that no return follows: a loop
\* counter is below 0.  In the inner loop (addresses 3..5) y is only
\* decremented and the loop is left at y = 0; in the outer loop (2..7) z is
\* only decremented and the loop is left at z = 0.
Trapped ==
    /\ status = "running"
    /\ code = IdiomCode
    /\ code[1].name = "cpy"
    /\ \/ ip \in 3..5 /\ registers[RegY] < 0
       \/ ip \in 2..7 /\ registers[RegZ] < 0

\* Once trapped, a run stays trapped: it never returns.
TrapIsClosed == [][Trapped => Trapped']_vars

\* What C4 says of the runs of a behaviour: none goes on for ever, each ends
\* normally with y = z = 0, and the run after optimize() ends with the w and
\* x of the run before it.
RunsAgree ==
    /\ ~Trapped
    /\ ~CutOff
    /\ \A i \in DOMAIN log :
          log[i].op = "run" =>
              /\ log[i].outcome = "returned"
              /\ log[i].registers[RegY] = 0
              /\ log[i].registers[RegZ] = 0
    /\ Len(log) = 3 =>
          /\ log[2].outcome = "ok"
          /\ log[1].registers[RegW] = log[3].registers[RegW]
          /\ log[1].registers[RegX] = log[3].registers[RegX]

\* C4 as stated: for the idiom under every binding of four distinct
\* registers and every nonnegative initial register file, the runs before
\* and after optimize() both terminate, agree on w and x and end with
\* y = z = 0.
C4_OptimizerEquivalence == RunsAgree

\* C4 as amended: the same, for the initial register files with w >= 1 and
\* x >= 1.
C4_OptimizerEquivalencePositive ==
    (IdiomInitial[RegW] >= 1 /\ IdiomInitial[RegX] >= 1) => RunsAgree

\* Both runs of w = x = MaxInit have returned, with w their product.
C4_Witness ==
    /\ Len(log) = 3
    /\ log[3].outcome = "returned"
    /\ IdiomInitial[RegW] = MaxInit
    /\ IdiomInitial[RegX] = MaxInit
    /\ log[1].registers[RegW] = MaxInit * MaxInit
    /\ log[3].code[1].name = "mul"

\* The instruction at the address the latest jnz or tgl aimed at, as it was
\* before that iteration.
LastTarget == last.code[last.address + 1]

\* C5: a taken jnz whose target address is in [0, len(program)) and whose
\* target is optimized and not a chunk head aborts the run with the
\* jump-into-optimized-chunk error, and ip is not set to the target; a taken
\* jnz to a chunk head or to an instruction that is not optimized does not
\* raise that error.
C5_JumpIntoChunkGuard ==
    (JumpTaken /\ InRange(last.code, last.address)) =>
        IF LastTarget.optimized /\ ~LastTarget.chunk_head
        THEN /\ status = "raised"
             /\ error = JumpIntoChunkError
             /\ ip # last.address
        ELSE error # JumpIntoChunkError

\* A jnz into the fourth instruction of a chunk has aborted the run.
C5_Witness ==
    /\ JumpTaken
    /\ InRange(last.code, last.address)
    /\ last.address >= 3
    /\ LastTarget.name = "nop"
    /\ last.code[last.address - 2].chunk_head
    /\ status = "raised"
    /\ error = JumpIntoChunkError

\* C6: a tgl whose target is in range and not optimized turns inc into dec,
\* dec into inc, jnz into cpy and cpy into jnz and keeps the operands; a tgl
\* whose target address is outside [0, len(program)) changes no instruction,
\* raises nothing, and execution continues.
C6_ToggleTable ==
    ToggleDone =>
        IF InRange(last.code, last.address)
        THEN ~LastTarget.optimized =>
               /\ status = "running"
               /\ code[last.address + 1].arguments = LastTarget.arguments
               /\ LastTarget.name = "inc" => code[last.address + 1].name = "dec"
               /\ LastTarget.name = "dec" => code[last.address + 1].name = "inc"
               /\ LastTarget.name = "jnz" => code[last.address + 1].name = "cpy"
               /\ LastTarget.name = "cpy" => code[last.address + 1].name = "jnz"
        ELSE /\ code = last.code
             /\ status = "running"
             /\ ip = last.ip + 1
             /\ registers = last.registers

\* A tgl has turned a jnz into a cpy.
C6_Witness ==
    /\ ToggleDone
    /\ InRange(last.code, last.address)
    /\ LastTarget.name = "jnz"
    /\ code[last.address + 1].name = "cpy"

RECURSIVE FreshRun(_, _, _, _)
\* The outcome and the registers of run() on a program nobody has run
\* before, followed for at most n iterations.
FreshRun(c, p, regs, n) ==
    IF ~InRange(c, p) THEN <<"returned", regs>>
    ELSE IF n = 0 THEN <<"cut off", regs>>
    ELSE LET it == Iteration(c, p, regs)
         IN IF it.status = "raised" THEN <<it.error, it.registers>>
            ELSE FreshRun(it.code, it.ip, it.registers, n - 1)

\* The run that has just ended did what a first run of the program the
\* caller came with does from the same initial registers.
EndedAsFresh ==
    (/\ status \in {"returned", "raised"}
     /\ \A i \in DOMAIN log : log[i].op = "run") =>
        <<LastEntry.outcome, LastEntry.registers>>
            = FreshRun(log[1].code, 0, MachineState(initial).registers, MaxSteps)

\* C7: run() never changes the Program it is called on, whether it toggles,
\* returns or aborts, so that a later run behaves as if no run had been
\* made before it.
C7_RunKeepsCallerProgram ==
    /\ [][status = "running" => self_code' = self_code]_vars
    /\ []EndedAsFresh

\* A second run, from other registers than the first, which ended with an
\* error, has toggled its copy.
C7_Witness ==
    /\ Len(log) = 2
    /\ log[1].op = "run"
    /\ log[2].op = "run"
    /\ log[1].outcome # "returned"
    /\ log[1].initial # log[2].initial
    /\ code # self_code

\* C8: in every state of a run each optimized instruction is the one
\* optimize() wrote into the caller's program, and a tgl whose target is in
\* range and optimized aborts the run with the toggle-of-optimized error and
\* leaves it as it was.
C8_OptimizedFrozen ==
    /\ \A k \in DOMAIN code : code[k].optimized => code[k] = self_code[k]
    /\ (/\ ToggleDone
        /\ InRange(last.code, last.address)
        /\ LastTarget.optimized) =>
          /\ status = "raised"
          /\ error = ToggleOptimizedError
          /\ code = last.code

\* A tgl aimed at a chunk head has aborted the run.
C8_Witness ==
    /\ ToggleDone
    /\ InRange(last.code, last.address)
    /\ LastTarget.chunk_head
    /\ status = "raised"
    /\ error = ToggleOptimizedError
    /\ code[last.address + 1].name = "mul"

\* Name and arguments, as Instruction holds them.
Shape(name, args) == [name |-> name, arguments |-> args]
ShapeOf(ins) == Shape(ins.name, ins.arguments)

\* The idiom cpy w z / cpy 0 w / cpy x y / inc w / dec y / jnz y -2 /
\* dec z / jnz z -5 and what replaces it, for f = <<w, x, y, z>>.
IdiomShape(f) ==
    << Shape("cpy", <<Reg(f[1]), Reg(f[4])>>),
       Shape("cpy", <<Lit(0), Reg(f[1])>>),
       Shape("cpy", <<Reg(f[2]), Reg(f[3])>>),
       Shape("inc", <<Reg(f[1])>>),
       Shape("dec", <<Reg(f[3])>>),
       Shape("jnz", <<Reg(f[3]), Lit(-2)>>),
       Shape("dec", <<Reg(f[4])>>),
       Shape("jnz", <<Reg(f[4]), Lit(-5)>>) >>

ChunkShape(f) ==
    << Shape("mul", <<Reg(f[2]), Reg(f[1])>>),
       Shape("cpy", <<Lit(0), Reg(f[3])>>),
       Shape("cpy", <<Lit(0), Reg(f[4])>>),
       Shape("nop", <<>>), Shape("nop", <<>>), Shape("nop", <<>>),
       Shape("nop", <<>>), Shape("nop", <<>>) >>

Window(c, o) == [k \in 1..8 |-> ShapeOf(c[o + k])]

\* The windows of c that are the idiom under some binding of four distinct
\* registers, as pairs <<offset, binding>>.
IdiomWindows(c) ==
    {w \in (0..(Len(c) - 8)) \X Bindings : Window(c, w[1]) = IdiomShape(w[2])}

\* optimize() has just returned.
JustOptimized ==
    /\ status = "idle"
    /\ log # <<>>
    /\ LastEntry.op = "optimize"
    /\ LastEntry.outcome = "ok"

\* C9: optimize() rewrites the window at the lowest offset at which the 8
\* instructions are the idiom under a binding of four distinct registers,
\* and the window is then mul x w / cpy 0 y / cpy 0 z / nop * 5.
C9_RewritesLowestWindow ==
    JustOptimized =>
        \E w \in IdiomWindows(LastEntry.code) :
            /\ \A v \in IdiomWindows(LastEntry.code) : w[1] <= v[1]
            /\ Window(self_code, w[1]) = ChunkShape(w[2])

\* optimize() has rewritten the lower of two windows that were the idiom and
\* left the upper one as it was.
C9_Witness ==
    /\ JustOptimized
    /\ Cardinality({w[1] : w \in IdiomWindows(LastEntry.code)}) = 2
    /\ Cardinality({w[1] : w \in IdiomWindows(self_code)}) = 1
    /\ self_code[1].name = "mul"

\* The optimized instructions of c are chunks of 8, each headed by its only
\* chunk head, and nothing else is a chunk head.
Chunked(c) ==
    \A i \in DOMAIN c :
        /\ c[i].chunk_head => c[i].optimized
        /\ c[i].optimized =>
             \E h \in DOMAIN c :
                 /\ h <= i
                 /\ i <= h + 7
                 /\ h + 7 <= Len(c)
                 /\ c[h].chunk_head
                 /\ \A k \in h..(h + 7) :
                        c[k].optimized /\ (k # h => ~c[k].chunk_head)

\* C10: after any number of successful optimize() calls the optimized
\* instructions form disjoint runs of exactly 8, chunk_head is true for the
\* first of each run and false for the other seven, and no instruction that
\* is not optimized has chunk_head true.
C10_ChunksOfEight == Chunked(self_code) /\ Chunked(code)

\* Two calls of optimize() have left two chunks side by side.
C10_Witness ==
    /\ Cardinality({i \in DOMAIN self_code : self_code[i].chunk_head}) = 2
    /\ Len(self_code) = 16
    /\ \A i \in DOMAIN self_code : self_code[i].optimized

\* optimize() has just ended, with or without an error.
OptimizeEnded ==
    /\ status = "idle"
    /\ log # <<>>
    /\ LastEntry.op = "optimize"

\* The offsets of the windows of eight that hold every address at which the
\* programs c and d differ.
CoveringWindows(c, d) ==
    {o \in 0..(Len(c) - 8) :
        \A k \in DOMAIN c : c[k] # d[k] => (k - 1) \in o..(o + 7)}

\* C11: a successful optimize() leaves the length of the program as it was
\* and changes instructions only inside the one window of 8 it rewrites:
\* every other address holds the instruction it held, with its name, its
\* arguments and its flags.
C11_OptimizeKeepsTheRest ==
    JustOptimized =>
        /\ Len(self_code) = Len(LastEntry.code)
        /\ \E o \in CoveringWindows(self_code, LastEntry.code) :
              \A k \in (o + 1)..(o + 8) :
                  self_code[k].optimized /\ ~LastEntry.code[k].optimized

\* The second optimize() has rewritten the window behind a tgl and left the
\* tgl and the chunk of the first optimize() before it as they were.
C11_Witness ==
    /\ JustOptimized
    /\ Len(log) = 2
    /\ Len(self_code) = 17
    /\ self_code[1].chunk_head
    /\ self_code[9] = Instruction("tgl", <<Word("c")>>)
    /\ self_code[10].chunk_head
    /\ ~LastEntry.code[10].optimized

\* C12: optimize() raises its error exactly when no window of 8 instructions
\* is the idiom under a binding of four distinct registers, which is so for
\* every program of fewer than 8 instructions, and it then leaves the
\* program as it was.
C12_MismatchIffNoWindow ==
    OptimizeEnded =>
        /\ (LastEntry.outcome = OptimizeError)
               <=> (IdiomWindows(LastEntry.code) = {})
        /\ LastEntry.outcome = OptimizeError => self_code = LastEntry.code
        /\ Len(LastEntry.code) < 8 => LastEntry.outcome = OptimizeError

\* optimize() has failed on a program of 8 lines that have the shape of the
\* idiom and bind two of its groups to one register.
C12_Witness ==
    /\ OptimizeEnded
    /\ LastEntry.outcome = OptimizeError
    /\ Len(self_code) = 8
    /\ FullMatch([i \in 1..8 |-> Str(self_code[i])], 0).ok
    /\ self_code = LastEntry.code

\* The caller has not called optimize() so far.
ParsedOnly == \A i \in DOMAIN log : log[i].op # "optimize"

Unflagged(c) == \A k \in DOMAIN c : ~c[k].optimized /\ ~c[k].chunk_head

\* C13 as stated: the parser rejects the lines nop and mul, so that a
\* program that comes from parsing alone holds no mul and no nop.
C13_ParsedHasNoMulNop ==
    /\ ~ParseLine(<<Word("nop")>>).ok
    /\ ~ParseLine(<<Word("mul"), Word("b"), Word("a")>>).ok
    /\ ParsedOnly => \A k \in DOMAIN self_code :
                         self_code[k].name \notin {"mul", "nop"}

\* C13 as amended: the parser accepts the lines nop and mul and makes them
\* instructions that are not optimized, so that a program that comes from
\* parsing alone, and every run of it, holds no optimized instruction and no
\* chunk head.
C13_ParsedHasNoOptimized ==
    ParsedOnly => (Unflagged(self_code) /\ Unflagged(code))

\* A run of the parsed program nop / mul b a has multiplied a by b.
C13_Witness ==
    /\ ParsedOnly
    /\ status = "returned"
    /\ self_code = <<Instruction("nop", <<>>),
                     Instruction("mul", <<Word("b"), Word("a")>>)>>
    /\ initial # NoInitial
    /\ registers["a"] = initial["a"] * initial["b"]

\* The number of operands of each opcode.
Arity(name) ==
    CASE name \in {"inc", "dec", "tgl", "out"} -> 1
      [] name \in {"cpy", "jnz", "mul"} -> 2
      [] name = "nop" -> 0

HasArity(c) == \A k \in DOMAIN c : Len(c[k].arguments) = Arity(c[k].name)

\* C14: in every state of every run, whatever has been toggled, each
\* instruction has as many operands as its opcode takes.
C14_ArityKept == HasArity(self_code) /\ HasArity(code)

\* C16: a tgl whose target is in range and not optimized turns a target of
\* one operand that is neither inc nor dec (a tgl) into inc, and a target of
\* two operands that is neither jnz nor cpy (a parsed mul) into jnz, and
\* keeps the operands.
C16_ToggleDefaults ==
    (ToggleDone /\ InRange(last.code, last.address) /\ ~LastTarget.optimized) =>
        /\ (Len(LastTarget.arguments) = 1 /\ LastTarget.name \notin {"inc", "dec"}) =>
              code[last.address + 1] = [LastTarget EXCEPT !.name = "inc"]
        /\ (Len(LastTarget.arguments) = 2 /\ LastTarget.name \notin {"jnz", "cpy"}) =>
              code[last.address + 1] = [LastTarget EXCEPT !.name = "jnz"]

\* A tgl has turned a tgl into an inc in a run that had turned a parsed mul
\* into a jnz before.
C16_Witness ==
    /\ ToggleDone
    /\ InRange(last.code, last.address)
    /\ LastTarget = Instruction("tgl", <<Num(2)>>)
    /\ code[last.address + 1].name = "inc"
    /\ self_code[3].name = "mul"
    /\ code[3] = [self_code[3] EXCEPT !.name = "jnz"]

\* A cpy whose second operand is a literal, or an inc or dec whose operand
\* is one.
LiteralTarget(ins) ==
    \/ ins.name = "cpy" /\ Len(ins.arguments) = 2 /\ ~ins.arguments[2].isstr
    \/ ins.name \in {"inc", "dec"} /\ ~ins.arguments[1].isstr

\* The latest iteration of the run of day 23 executed such an instruction,
\* raised nothing, left the registers as they were and moved ip by 1.
LiteralTargetSkipped ==
    (last.kind # "none" /\ LiteralTarget(last.code[last.ip + 1])) =>
        /\ status # "raised"
        /\ registers = last.registers
        /\ ip = last.ip + 1

\* The same of the latest iteration of a generator of day 25.
LiteralTargetSkipped25(gen) ==
    (gen.count > 0 /\ LiteralTarget(gen.last.ins)) =>
        /\ gen.pc # "raised"
        /\ gen.registers = gen.last.registers
        /\ gen.ip = gen.last.ip + 1

\* C15: executing a cpy whose destination is a literal, or an inc or dec
\* whose operand is a literal, raises nothing, leaves every register as it
\* was and moves ip by exactly 1, in day 23 and in day 25, whose parsers
\* accept such lines.
C15_LiteralTargetIsNoOp ==
    /\ LiteralTargetSkipped
    /\ \A g \in DOMAIN generators : LiteralTargetSkipped25(generators[g])

\* No call of optimize() lies between the calls i and j of the log.
SameProgram(i, j) == \A k \in i..j : log[k].op = "run"

\* s is the beginning of t.
IsPrefix(s, t) == Len(s) <= Len(t) /\ SubSeq(t, 1, Len(s)) = s

Finished(gen) == gen.pc \in {"returned", "raised"}

\* Two runs of one Program of day 23 from the same registers ended alike.
RunsRepeat ==
    \A i, j \in DOMAIN log :
        (/\ i < j
         /\ SameProgram(i, j)
         /\ MachineState(log[i].initial) = MachineState(log[j].initial)) =>
            /\ log[i].outcome = log[j].outcome
            /\ log[i].registers = log[j].registers

\* Two generators of one Program of day 25 from the same registers have
\* yielded the same values as far as both have got, stand in the same state
\* after as many iterations, and have ended alike if both have ended.
StreamsRepeat ==
    \A g, h \in DOMAIN generators :
        generators[g].initial = generators[h].initial =>
            /\ \/ IsPrefix(generators[g].outputs, generators[h].outputs)
               \/ IsPrefix(generators[h].outputs, generators[g].outputs)
            /\ (/\ generators[g].count = generators[h].count
                /\ generators[g].pc # "created"
                /\ generators[h].pc # "created") =>
                   /\ generators[g].ip = generators[h].ip
                   /\ generators[g].registers = generators[h].registers
                   /\ generators[g].outputs = generators[h].outputs
                   /\ generators[g].error = generators[h].error
            /\ (Finished(generators[g]) /\ Finished(generators[h])) =>
                   /\ generators[g].pc = generators[h].pc
                   /\ generators[g].count = generators[h].count

\* C17: running one Program from the same initial registers twice, also
\* with other runs in between, ends with the same registers and the same
\* error or none, and as generators yields the same values at every length.
C17_Determinism == RunsRepeat /\ StreamsRepeat

\* Two generators from the same registers: one has yielded two values and
\* ended, the other has yielded the first two of them so far.
C17_Witness ==
    /\ driver.mode = "pulls"
    /\ generators[1].initial = generators[2].initial
    /\ Finished(generators[1])
    /\ Len(generators[1].outputs) = 2
    /\ generators[2].pc = "suspended"
    /\ generators[2].outputs = <<generators[1].outputs[1]>>
    /\ generators[1].outputs[1] # generators[1].outputs[2]

\* A suspended generator stands right behind the out it executed last: the
\* value it yielded last is the value of the operand of that out, the
\* registers are as the out found them and ip is one past it; and it has
\* yielded one value for each out it executed.
SuspendedBehindOut(gen) ==
    /\ gen.pc = "suspended" =>
          /\ gen.last.ins.name = "out"
          /\ gen.outputs # <<>>
          /\ gen.outputs[Len(gen.outputs)]
                = FetchValue(gen.last.registers, gen.last.ins.arguments[1])
          /\ gen.registers = gen.last.registers
          /\ gen.ip = gen.last.ip + 1
    /\ gen.pc # "running" => Len(gen.outputs) = gen.executed_out
    /\ gen.pc = "running" => gen.executed_out = Len(gen.outputs)

\* A generator that is not inside next() changes only by a call of next().
IdleBetweenPulls ==
    \A g \in DOMAIN generators :
        generators[g].pc # "running" =>
            \/ generators'[g] = generators[g]
            \/ generators'[g] = Started(generators[g])

\* C18: the k-th value a generator yields is the value of the operand of the
\* k-th out it executes; at the yield its state is the state that out left,
\* with ip one past it; it executes nothing between two calls of next(), so
\* that a consumer that stops pulling leaves it as it is.
C18_PullByPull ==
    /\ [](\A g \in DOMAIN generators : SuspendedBehindOut(generators[g]))
    /\ [][IdleBetweenPulls]_vars

\* Two generators are suspended: one behind an out a, its third out, the
\* other behind its first out, and their registers differ.
C18_Witness ==
    /\ driver.mode = "pulls"
    /\ generators[1].pc = "suspended"
    /\ generators[2].pc = "suspended"
    /\ Len(generators[1].outputs) = 3
    /\ Len(generators[2].outputs) = 1
    /\ generators[1].last.ins = Instruction25("out", <<Word("a")>>)
    /\ generators[1].registers # generators[2].registers
    /\ generators[1].outputs[3] = generators[1].registers["a"]
    /\ generators[1].outputs[3] # generators[1].outputs[2]

RECURSIVE Alone(_, _)
\* A generator of the Program that runs with no other beside it, after n
\* more iterations of its loop.
Alone(gen, n) ==
    IF n = 0 \/ gen.pc = "raised" \/ ~InRange25(gen.ip) THEN gen
    ELSE Alone(Stepped(gen), n - 1)

\* The generator is, but for where it stands between next() and yield,
\* where a generator from its initial registers is after as many iterations
\* alone.
AsAlone(gen) ==
    gen.pc # "created" =>
        LET ref == Alone(Started(Generator(gen.initial)), gen.count)
        IN /\ gen.ip = ref.ip
           /\ gen.registers = ref.registers
           /\ gen.outputs = ref.outputs
           /\ gen.error = ref.error
           /\ gen.count = ref.count

\* C19: generators of one Program, from different initial registers and
\* pulled in any order, each yield the values they yield alone; no generator
\* changes the ip or the registers of another, and none changes the Program.
C19_GeneratorsApart ==
    /\ [](\A g \in DOMAIN generators : AsAlone(generators[g]))
    /\ [][signal_code' = signal_code]_vars

\* Two generators from different registers have each yielded two values,
\* not the same ones; one is suspended, the other inside next().
C19_Witness ==
    /\ driver.mode = "pulls"
    /\ generators[1].initial # generators[2].initial
    /\ Len(generators[1].outputs) = 2
    /\ Len(generators[2].outputs) = 2
    /\ generators[1].outputs # generators[2].outputs
    /\ generators[1].pc = "suspended"
    /\ generators[2].pc = "running"

\* The values are check_limit many, 0 at the even and 1 at the odd places.
ClockSignal(outputs) ==
    /\ Len(outputs) = CheckLimit
    /\ \A k \in 1..Len(outputs) : outputs[k] = (k - 1) % 2

\* C20: the seed clock_signal_seed returns is the lowest seed from 1 on whose
\* generator, started with the seed in a, yields 12 values that are 0 at
\* every even place and 1 at every odd place.
C20_LowestSeed ==
    (driver.mode = "seed" /\ driver.pc = "returned") =>
        /\ driver.result >= 1
        /\ ClockSignal(generators[driver.result].outputs)
        /\ generators[driver.result].initial["a"] = driver.result
        /\ \A s \in 1..(driver.result - 1) :
              LET outputs == generators[s].outputs
              IN /\ outputs # <<>>
                 /\ outputs[Len(outputs)] # (Len(outputs) - 1) % 2

\* The address is that of an instruction of a chunk other than its head.
Interior(c, address) ==
    /\ InRange(c, address)
    /\ c[address + 1].optimized
    /\ ~c[address + 1].chunk_head

\* C23: whenever the ip of a run stands on an instruction of a chunk other
\* than its head, the iteration before executed the instruction of the
\* chunk right before it and fell through to it: the inside of a chunk is
\* entered only from its head, instruction by instruction.
C23_ChunkEnteredAtHead ==
    (status \in {"running", "raised", "returned"} /\ Interior(code, ip)) =>
        /\ last.kind = "next"
        /\ last.ip = ip - 1
        /\ code[ip].optimized
        /\ count >= 1

\* A run has come to the last nop of a chunk that does not begin the
\* program, eight iterations after the jnz that jumped to its head.
C23_Witness ==
    /\ status = "running"
    /\ Interior(code, ip)
    /\ ip = 8
    /\ code[2].chunk_head
    /\ code[1].name = "jnz"
    /\ count = 8

\* The addresses at which c holds an optimized instruction.
OptimizedAt(c) == {k \in DOMAIN c : c[k].optimized}

\* C24: a successful optimize() rewrites one window of 8 and no more, also
\* when several windows are the idiom; no window that is the idiom holds an
\* optimized instruction, and the instructions of earlier chunks are after
\* the call what they were before it.
C24_OneWindowPerCall ==
    /\ OptimizedAt(self_code) # {} =>
          \A w \in IdiomWindows(self_code) :
              \A k \in (w[1] + 1)..(w[1] + 8) : ~self_code[k].optimized
    /\ JustOptimized =>
          /\ Cardinality(OptimizedAt(self_code) \ OptimizedAt(LastEntry.code)) = 8
          /\ \A k \in OptimizedAt(LastEntry.code) :
                self_code[k] = LastEntry.code[k]

\* The first optimize() on a program of two idioms has left the second one
\* to be rewritten.
C24_Witness ==
    /\ JustOptimized
    /\ Len(log) = 1
    /\ Cardinality(IdiomWindows(LastEntry.code)) = 2
    /\ Cardinality(OptimizedAt(self_code)) = 8
    /\ Cardinality(IdiomWindows(self_code)) = 1
    /\ Len(self_code) = 16

\* The windows of c that are the idiom under a binding that puts two of w,
\* x, y, z on one register, as pairs <<offset, binding>>.
ClashingWindows(c) ==
    {w \in (0..(Len(c) - 8)) \X ([1..4 -> Registers] \ Bindings) :
        Window(c, w[1]) = IdiomShape(w[2])}

\* C25: optimize() does not rewrite a window that is the idiom but for two
\* of w, x, y, z being one register: it leaves it as it is, goes on, and
\* rewrites a window at a higher offset that is the idiom.
C25_ClashingWindowSkipped ==
    OptimizeEnded =>
        \A w \in ClashingWindows(LastEntry.code) :
            /\ \A k \in (w[1] + 1)..(w[1] + 8) : self_code[k] = LastEntry.code[k]
            /\ (\E v \in IdiomWindows(LastEntry.code) : v[1] > w[1]) =>
                  /\ LastEntry.outcome = "ok"
                  /\ \E v \in IdiomWindows(LastEntry.code) :
                        /\ v[1] > w[1]
                        /\ Window(self_code, v[1]) = ChunkShape(v[2])

\* optimize() has passed over a window with y and x on one register at
\* offset 0 and rewritten the idiom behind it.
C25_Witness ==
    /\ JustOptimized
    /\ \E w \in ClashingWindows(LastEntry.code) : w[1] = 0
    /\ ClashingWindows(self_code) = ClashingWindows(LastEntry.code)
    /\ self_code[1].name = "cpy"
    /\ self_code[9].chunk_head

\* The instruction the latest iteration of the run executed.
LastIns == last.code[last.ip + 1]

\* C26: the target of a tgl is its own address plus the value of its operand
\* at that moment; after a tgl that does not abort the run, its target in
\* range or not, the run goes on at the address behind the tgl; a tgl whose
\* operand is worth 0 becomes inc and is not executed again in that step.
C26_ToggleTargetAndAdvance ==
    ToggleDone =>
        /\ LastIns.name = "tgl"
        /\ last.address = last.ip + FetchValue(last.registers,
                                               LastIns.arguments[1])
        /\ status = "running" => ip = last.ip + 1
        /\ ~InRange(last.code, last.address) =>
              status = "running" /\ code = last.code
        /\ last.address = last.ip =>
              /\ status = "running"
              /\ code[last.ip + 1].name = "inc"
              /\ registers = last.registers

\* A tgl on a register worth 0 has toggled itself.
C26_Witness ==
    /\ ToggleDone
    /\ LastIns.arguments[1].isstr
    /\ last.address = last.ip
    /\ code[last.ip + 1].name = "inc"
    /\ ip = last.ip + 1

\* The latest iteration of a run of day 23 executed a jnz: on a value other
\* than 0 ip moved by the second operand, on 0 by 1; the registers stayed.
\* The refusal of a jump into a chunk is left aside, and so is a jnz that
\* toggle() made of a nop, which has no operands.
JumpMoves ==
    (status \in {"running", "raised"} /\ last.kind # "none"
        /\ LastIns.name = "jnz" /\ Len(LastIns.arguments) = 2
        /\ error # JumpIntoChunkError) =>
        /\ status = "running"
        /\ registers = last.registers
        /\ ip = IF FetchValue(last.registers, LastIns.arguments[1]) # 0
                THEN last.ip + FetchValue(last.registers, LastIns.arguments[2])
                ELSE last.ip + 1

\* The same of the latest iteration of a generator of day 25.
JumpMoves25(gen) ==
    (gen.count > 0 /\ gen.last.ins.name = "jnz") =>
        /\ gen.pc # "raised"
        /\ gen.registers = gen.last.registers
        /\ gen.ip = IF FetchValue(gen.last.registers,
                                  gen.last.ins.arguments[1]) # 0
                    THEN gen.last.ip + FetchValue(gen.last.registers,
                                                  gen.last.ins.arguments[2])
                    ELSE gen.last.ip + 1

\* C27: a jnz whose first operand is worth something other than 0 moves ip
\* by the value its second operand has at that moment, a register's value
\* included, 0 and negative values included; on 0 ip moves by 1; the
\* registers stay as they were in both cases, in day 23 and in day 25.
C27_JumpMovesPointer ==
    /\ JumpMoves
    /\ \A g \in DOMAIN generators : JumpMoves25(generators[g])

\* C28: an iteration that executes a tgl changes the name of its target and
\* ip, and nothing else: the registers, the arguments and flags of every
\* instruction and the names of all other instructions stay.
C28_ToggleFrame ==
    ToggleDone =>
        /\ registers = last.registers
        /\ Len(code) = Len(last.code)
        /\ \A k \in DOMAIN code :
              /\ code[k].arguments = last.code[k].arguments
              /\ code[k].optimized = last.code[k].optimized
              /\ code[k].chunk_head = last.code[k].chunk_head
              /\ code[k].name # last.code[k].name => k = last.address + 1

\* A tgl of a run with a register set has turned a two-argument instruction
\* further down, which is not the last of the program.
C28_Witness ==
    /\ ToggleDone
    /\ status = "running"
    /\ last.address > last.ip
    /\ InRange(code, last.address + 1)
    /\ code[last.address + 1].name # last.code[last.address + 1].name
    /\ Len(code[last.address + 1].arguments) = 2
    /\ \E r \in Registers : registers[r] # 0

\* The run of day 23 and the run of day 12 on the same lines, as far as
\* neither has raised: after the same number of iterations they stand at
\* the same ip with the same registers, and when one has returned the other
\* makes no iteration more.
InStep ==
    /\ (status \in {"running", "returned"}
           /\ run12.status \in {"running", "returned"}
           /\ count = run12.count) =>
          /\ ip = run12.ip
          /\ registers = run12.registers
    /\ status = "returned" => run12.count <= count
    /\ run12.status = "returned" => count <= run12.count

\* C29: on a program the parser of day 12 accepts, from any initial
\* registers, the interpreter of day 12 and that of day 23 without
\* optimize() come to the same outcome: both return with the same register
\* file, or neither returns.
C29_EnginesAgree ==
    run12.status # "none" =>
        /\ status # "raised"
        /\ InStep
        /\ (status = "returned" /\ run12.status = "returned") =>
              registers = run12.registers

\* The names of the forms cpy, inc, dec, jnz, tgl and out.
Forms == {"cpy", "inc", "dec", "jnz", "tgl", "out"}

\* The lines of the call the parser accepted with a form of Forms; they are
\* there once str() has been applied to what the call made.
FormattedLines ==
    IF parser.pc = "formatted"
    THEN {i \in DOMAIN parser.lines : parser.lines[i][1].word \in Forms}
    ELSE {}

\* C21 as claimed: for every line of the forms cpy, inc, dec, jnz, tgl, out
\* that the parser accepts, str() of the Instruction parsed from it is the
\* line.
C21_RoundTrip ==
    \A i \in FormattedLines : parser.text[i] = parser.lines[i]

\* An integer written as str() writes it: no leading zero, no sign on 0.
CanonicalPiece(tok) ==
    IsNumeral(tok) =>
        /\ tok.digits[1] # 0 \/ Len(tok.digits) = 1
        /\ ~(tok.neg /\ tok.digits = <<0>>)

\* A line with no line feed at its end and integers written canonically.
CanonicalLine(line) ==
    /\ line[Len(line)] # Newline
    /\ \A k \in DOMAIN line : CanonicalPiece(line[k])

RECURSIVE StripZeros(_)
\* The digits without their leading zeros.
StripZeros(ds) ==
    IF Len(ds) > 1 /\ ds[1] = 0 THEN StripZeros(Tail(ds)) ELSE ds

\* The line without its final line feed and with its integers written
\* canonically.
CanonicalText(line) ==
    [k \in DOMAIN Chomp(line) |->
        LET tok == Chomp(line)[k]
            ds == StripZeros(tok.digits)
        IN IF IsNumeral(tok) THEN Numeral(tok.neg /\ ds # <<0>>, ds) ELSE tok]

\* C21, amended: for every accepted line of the forms cpy, inc, dec, jnz,
\* tgl, out that has no line feed at its end and whose integers are written
\* canonically, str() of the Instruction parsed from it is the line; any
\* other accepted line of these forms comes back without its line feed and
\* with its integers written canonically.
C21_RoundTripCanonical ==
    \A i \in FormattedLines :
        /\ parser.text[i] = CanonicalText(parser.lines[i])
        /\ CanonicalLine(parser.lines[i]) => parser.text[i] = parser.lines[i]

\* Two canonical lines have come back as they were, one with a negative
\* integer, one with a two-digit integer.
C21_Witness ==
    /\ parser.pc = "formatted"
    /\ FormattedLines = {1, 2}
    /\ \A i \in FormattedLines : CanonicalLine(parser.lines[i])
    /\ \E i \in FormattedLines : \E k \in DOMAIN parser.lines[i] :
          parser.lines[i][k].neg
    /\ \E i \in FormattedLines : \E k \in DOMAIN parser.lines[i] :
          Len(parser.lines[i][k].digits) = 2
    /\ parser.text = parser.lines

\* The lines of the call that match no form of its parser.
Offending ==
    {i \in DOMAIN parser.lines :
        ~ParseLineOf(parser.variant, parser.lines[i]).ok}

FirstOffending == CHOOSE i \in Offending : \A j \in Offending : i <= j

\* C22, amended: from_lines on lines of which one matches no form raises
\* ValueError, whose message holds the text of the first such line and no
\* line number, and makes no Program; on other lines it makes the Program.
C22_ErrorHoldsFirstLine ==
    parser.pc \in {"parsed", "raised", "formatted"} =>
        IF Offending # {}
        THEN /\ parser.pc = "raised"
             /\ parser.error = UnrecognizedInstruction(
                                   parser.lines[FirstOffending])
             /\ parser.code = <<>>
        ELSE /\ parser.pc # "raised"
             /\ Len(parser.code) = Len(parser.lines)

\* The call has raised on the first of two different lines that match
\* nothing.
C22_Witness ==
    /\ parser.pc = "raised"
    /\ Offending = {1, 2}
    /\ parser.lines[1] # parser.lines[2]
    /\ parser.error.line = parser.lines[1]
    /\ parser.variant = "day-12"

\* The error tells the number of the line: it is not the error the same
\* parser raises on the offending line alone, where the line has number 0,
\* unless 0 is its number (index 1 here).
NumberIdentified ==
    parser.pc = "raised" =>
        \/ FirstOffending = 1
        \/ FromLinesOutcome(parser.variant,
                            <<parser.lines[FirstOffending]>>).error
               # parser.error

\* C22 as claimed: from_lines on lines of which one matches no form fails
\* with an error that identifies the 0-based number and the text of the
\* first such line, and makes no Program.
C22_ErrorNamesLineNumber ==
    /\ C22_ErrorHoldsFirstLine
    /\ NumberIdentified

\* The names toggle() gives in turn to an instruction that begins as
\* `name`, as the claim has them: inc and dec, cpy and jnz swap; tgl
\* becomes inc and then dec.
AfterTwoToggles(name) == IF name = "tgl" THEN "dec" ELSE name

\* C30: an instruction that is not optimized and whose name is inc, dec,
\* cpy or jnz is, after two toggles, what it was, name and arguments; a tgl
\* that is not optimized is not: after one toggle it is inc, after two dec.
C30_TwoToggles ==
    status \in {"running", "raised", "returned"} =>
        \A k \in DOMAIN code :
            (~self_code[k].optimized
                /\ self_code[k].name \in {"inc", "dec", "cpy", "jnz", "tgl"}) =>
                /\ toggled[k] = 2 =>
                      /\ code[k] = [self_code[k] EXCEPT
                                      !.name = AfterTwoToggles(@)]
                      /\ self_code[k].name = "tgl" => code[k] # self_code[k]
                /\ (toggled[k] = 1 /\ self_code[k].name = "tgl") =>
                      code[k].name = "inc"
                /\ (toggled[k] = 1 /\ self_code[k].name # "tgl") =>
                      code[k].name # self_code[k].name

\* A run has toggled a cpy twice and has it back; the run goes on.
C30_Witness ==
    /\ status = "running"
    /\ Len(code) = 3
    /\ toggled[2] = 2
    /\ self_code[2].name = "cpy"
    /\ code[2] = self_code[2]
    /\ last.kind = "toggle"

====
